---------------------------- MODULE Spec2Model ----------------------------
(***************************************************************************)
(* Nodepat: the document buffer (src/src/editor.rs), the file gateway and  *)
(* its encoding codec (src/src/file_ops.rs), the find and replace          *)
(* operations (src/src/search.rs), the recent files (src/src/config.rs)    *)
(* and the menu/dialog handlers that drive them (src/src/menu.rs,          *)
(* src/src/ui/dialogs.rs).                                                 *)
(*                                                                         *)
(* A text is a sequence of Unicode scalar values (Rust's String seen as    *)
(* its chars); a file is a sequence of bytes 0..255.                       *)
(***************************************************************************)
EXTENDS Integers, Sequences, FiniteSets, TLC

(***************************************************************************)
(* Sequence helpers                                                        *)
(***************************************************************************)
Last(s) == s[Len(s)]

Front(s) == SubSeq(s, 1, Len(s) - 1)

Rev(s) == [i \in 1..Len(s) |-> s[Len(s) + 1 - i]]

\* starts_with of a slice
starts_with(s, p) == Len(s) >= Len(p) /\ SubSeq(s, 1, Len(p)) = p

\* s with its first n elements dropped (&s[n..])
SliceFrom(s, n) == SubSeq(s, n + 1, Len(s))

RECURSIVE Flatten(_)
\* flat_map(..).collect(): the concatenation of a sequence of sequences
Flatten(ss) ==
    IF Len(ss) = 0 THEN <<>>
    ELSE IF Len(ss) = 1 THEN ss[1]
    ELSE LET m == Len(ss) \div 2
         IN  Flatten(SubSeq(ss, 1, m)) \o Flatten(SubSeq(ss, m + 1, Len(ss)))

\* All sequences over S of length at most n
SeqsUpTo(S, n) == UNION {[1..k -> S] : k \in 0..n}

\* n copies of x
Repeat(x, n) == [i \in 1..n |-> x]

(***************************************************************************)
(* Unicode scalar values and the standard library's UTF-8 / UTF-16 codecs  *)
(***************************************************************************)
IsHighSurrogate(u) == u >= 55296 /\ u <= 56319      \* D800..DBFF

IsLowSurrogate(u) == u >= 56320 /\ u <= 57343       \* DC00..DFFF

IsScalar(c) == c >= 0 /\ c <= 1114111 /\ ~(c >= 55296 /\ c <= 57343)

\* U+FFFD REPLACEMENT CHARACTER, what from_utf8_lossy substitutes
ReplacementChar == 65533

\* char::encode_utf8: the bytes of one scalar value
Utf8OfChar(c) ==
    IF c < 128 THEN <<c>>
    ELSE IF c < 2048 THEN <<192 + (c \div 64), 128 + (c % 64)>>
    ELSE IF c < 65536
         THEN <<224 + (c \div 4096), 128 + ((c \div 64) % 64), 128 + (c % 64)>>
    ELSE <<240 + (c \div 262144), 128 + ((c \div 4096) % 64),
           128 + ((c \div 64) % 64), 128 + (c % 64)>>

\* str::as_bytes: a String's bytes are its UTF-8 encoding
as_bytes(t) == Flatten([i \in 1..Len(t) |-> Utf8OfChar(t[i])])

\* char::encode_utf16: the code units of one scalar value
Utf16OfChar(c) ==
    IF c < 65536 THEN <<c>>
    ELSE <<55296 + ((c - 65536) \div 1024), 56320 + ((c - 65536) % 1024)>>

\* str::encode_utf16
encode_utf16(t) == Flatten([i \in 1..Len(t) |-> Utf16OfChar(t[i])])

\* UTF-8 continuation byte 10xxxxxx
IsCont(b) == b >= 128 /\ b <= 191

\* core::str's UTF8_CHAR_WIDTH: the sequence length a first byte announces,
\* 0 for a byte that can start nothing (80..C1, F5..FF)
Utf8Width(b) ==
    IF b < 128 THEN 1
    ELSE IF b >= 194 /\ b <= 223 THEN 2
    ELSE IF b >= 224 /\ b <= 239 THEN 3
    ELSE IF b >= 240 /\ b <= 244 THEN 4
    ELSE 0

\* Whether byte b may stand k places after first byte f (k >= 1): the second
\* byte is restricted after E0, ED, F0 and F4 (no overlong forms, no
\* surrogates, nothing above U+10FFFF), every later one is a continuation.
Utf8Follows(f, k, b) ==
    IF k = 1
    THEN IF f = 224 THEN b >= 160 /\ b <= 191
         ELSE IF f = 237 THEN b >= 128 /\ b <= 159
         ELSE IF f = 240 THEN b >= 144 /\ b <= 191
         ELSE IF f = 244 THEN b >= 128 /\ b <= 143
         ELSE IsCont(b)
    ELSE IsCont(b)

\* How many bytes after position i continue the sequence that bs[i] starts
\* (at most Utf8Width - 1): the maximal well-formed prefix.
Utf8Matched(bs, i) ==
    LET w == Utf8Width(bs[i])
        Fits(k) == \A j \in 1..k :
                      i + j <= Len(bs) /\ Utf8Follows(bs[i], j, bs[i + j])
    IN  IF w <= 1 THEN 0
        ELSE IF Fits(w - 1) THEN w - 1
        ELSE IF w >= 3 /\ Fits(w - 2) THEN w - 2
        ELSE IF w >= 4 /\ Fits(w - 3) THEN w - 3
        ELSE 0

\* Whether position i starts a complete well-formed sequence
Utf8Complete(bs, i) ==
    Utf8Width(bs[i]) >= 1 /\ Utf8Matched(bs, i) = Utf8Width(bs[i]) - 1

\* Whether the continuation byte at position i belongs to the sequence
\* started by the nearest byte before it that is no continuation byte
Utf8Consumed(bs, i) ==
    \E k \in 1..3 :
        /\ i - k >= 1
        /\ ~IsCont(bs[i - k])
        /\ \A j \in 1..(k - 1) : IsCont(bs[i - j])
        /\ Utf8Matched(bs, i - k) >= k

\* The scalar value of the complete sequence starting at position i
Utf8CharAt(bs, i) ==
    LET w == Utf8Width(bs[i])
    IN  IF w = 1 THEN bs[i]
        ELSE IF w = 2 THEN (bs[i] - 192) * 64 + (bs[i + 1] - 128)
        ELSE IF w = 3
             THEN (bs[i] - 224) * 4096 + (bs[i + 1] - 128) * 64 + (bs[i + 2] - 128)
        ELSE (bs[i] - 240) * 262144 + (bs[i + 1] - 128) * 4096
             + (bs[i + 2] - 128) * 64 + (bs[i + 3] - 128)

\* What position i contributes to the lossy decoding: a scalar value, the
\* replacement character for an ill-formed chunk, or -1 for a byte consumed
\* by the sequence before it
Utf8Emit(bs, i) ==
    IF IsCont(bs[i])
    THEN IF Utf8Consumed(bs, i) THEN -1 ELSE ReplacementChar
    ELSE IF Utf8Complete(bs, i) THEN Utf8CharAt(bs, i) ELSE ReplacementChar

\* String::from_utf8(..).is_ok(): strictly well-formed UTF-8
from_utf8_ok(bs) ==
    \A i \in 1..Len(bs) :
        IF IsCont(bs[i]) THEN Utf8Consumed(bs, i) ELSE Utf8Complete(bs, i)

\* String::from_utf8_lossy: never fails, one U+FFFD per ill-formed chunk;
\* on well-formed input it is the text String::from_utf8 returns
from_utf8_lossy(bs) ==
    SelectSeq([i \in 1..Len(bs) |-> Utf8Emit(bs, i)], LAMBDA c : c >= 0)

\* String::from_utf16(..).is_ok(): every surrogate is half of a pair
from_utf16_ok(v) ==
    \A i \in 1..Len(v) :
        /\ IsHighSurrogate(v[i]) => (i < Len(v) /\ IsLowSurrogate(v[i + 1]))
        /\ IsLowSurrogate(v[i]) => (i > 1 /\ IsHighSurrogate(v[i - 1]))

\* String::from_utf16 on valid input: pairs combined, the rest as is
from_utf16_text(v) ==
    SelectSeq([i \in 1..Len(v) |->
                  IF IsLowSurrogate(v[i]) THEN -1
                  ELSE IF IsHighSurrogate(v[i])
                       THEN 65536 + (v[i] - 55296) * 1024 + (v[i + 1] - 56320)
                  ELSE v[i]],
              LAMBDA c : c >= 0)

(***************************************************************************)
(* file_ops.rs: the codec helpers                                          *)
(***************************************************************************)
\* Result<String, String>
Ok(t) == [ok |-> TRUE, text |-> t, err |-> ""]

Err(e) == [ok |-> FALSE, text |-> <<>>, err |-> e]

\* bytes.chunks_exact(2).map(|chunk| u16::from_le_bytes([chunk[0], chunk[1]]))
u16_chars_le(bytes) ==
    [i \in 1..(Len(bytes) \div 2) |-> bytes[2 * i - 1] + 256 * bytes[2 * i]]

\* bytes.chunks_exact(2).map(|chunk| u16::from_be_bytes([chunk[0], chunk[1]]))
u16_chars_be(bytes) ==
    [i \in 1..(Len(bytes) \div 2) |-> 256 * bytes[2 * i - 1] + bytes[2 * i]]

\* decode_utf16_le without the length check: chunks_exact drops a last odd byte
decode_utf16_le_truncating(bytes) ==
    IF from_utf16_ok(u16_chars_le(bytes))
    THEN Ok(from_utf16_text(u16_chars_le(bytes)))
    ELSE Err("Invalid UTF-16 LE")

decode_utf16_le(bytes) ==
    IF Len(bytes) % 2 # 0 THEN Err("Invalid UTF-16 LE: odd number of bytes")
    ELSE IF from_utf16_ok(u16_chars_le(bytes))
         THEN Ok(from_utf16_text(u16_chars_le(bytes)))
    ELSE Err("Invalid UTF-16 LE")

decode_utf16_be(bytes) ==
    IF Len(bytes) % 2 # 0 THEN Err("Invalid UTF-16 BE: odd number of bytes")
    ELSE IF from_utf16_ok(u16_chars_be(bytes))
         THEN Ok(from_utf16_text(u16_chars_be(bytes)))
    ELSE Err("Invalid UTF-16 BE")

\* text.encode_utf16().flat_map(|c| c.to_le_bytes().to_vec())
encode_utf16_le(t) ==
    LET u == encode_utf16(t)
    IN  Flatten([i \in 1..Len(u) |-> <<u[i] % 256, u[i] \div 256>>])

\* text.encode_utf16().flat_map(|c| c.to_be_bytes().to_vec())
encode_utf16_be(t) ==
    LET u == encode_utf16(t)
    IN  Flatten([i \in 1..Len(u) |-> <<u[i] \div 256, u[i] % 256>>])

\* bytes.iter().map(|&b| char::from(b))
decode_latin1(bytes) == [i \in 1..Len(bytes) |-> bytes[i]]

\* b'?' for every char above U+00FF
encode_latin1(t) == [i \in 1..Len(t) |-> IF t[i] <= 255 THEN t[i] ELSE 63]

(***************************************************************************)
(* The state of a NodepatApp session                                       *)
(***************************************************************************)
VARIABLES
    text,               \* editor_state.text
    undo_history,       \* editor_state.undo_history, oldest first
    redo_history,       \* editor_state.redo_history
    file_path,          \* file_state.file_path, "" for an unsaved document
    is_modified,        \* file_state.is_modified
    encoding,           \* file_state.encoding, "" until the first load
    find_text,          \* search_state.find_text
    replace_text,       \* search_state.replace_text
    case_sensitive,     \* search_state.case_sensitive
    search_down,        \* search_state.search_down
    search_position,    \* search_state.search_position, a byte offset
    cursor_line,        \* editor_state.cursor_line
    cursor_column,      \* editor_state.cursor_column
    recent_files,       \* config.recent_files, most recent first
    count,              \* replace_all's local counter
    pc,                 \* "idle" between events, "replace_all" inside its
                        \* loop, "panicked" after a panic
    disk,               \* the file system: path -> [exists, data]
    font_family,        \* config.font_family
    show_open_dialog_flag,  \* app.show_open_dialog
    show_save_dialog_flag,  \* app.show_save_dialog
    file_browser,       \* app.file_browser, the one slot both dialogs use
    windows,            \* the dialog windows shown in the last frame
    op,                 \* history: the handler that ran last
    res,                \* history: what it returned
    pre,                \* history: the session before it ran
    saved_text          \* history: the text of the last successful load or
                        \* save, <<>> for a new document

editorVars == <<text, undo_history, redo_history>>

fileVars == <<file_path, is_modified, encoding>>

searchVars == <<find_text, replace_text, case_sensitive, search_down,
                search_position>>

cursorVars == <<cursor_line, cursor_column>>

dialogVars == <<show_open_dialog_flag, show_save_dialog_flag, file_browser,
                windows>>

vars == <<text, undo_history, redo_history, file_path, is_modified, encoding,
          find_text, replace_text, case_sensitive, search_down,
          search_position, cursor_line, cursor_column, recent_files, count,
          pc, disk, font_family, show_open_dialog_flag,
          show_save_dialog_flag, file_browser, windows, op, res, pre,
          saved_text>>

\* The session as a value
Session ==
    [text |-> text, undo_history |-> undo_history,
     redo_history |-> redo_history, file_path |-> file_path,
     is_modified |-> is_modified, encoding |-> encoding,
     search_position |-> search_position, cursor_line |-> cursor_line,
     cursor_column |-> cursor_column, recent_files |-> recent_files,
     font_family |-> font_family, disk |-> disk]

\* Config::create_default: font_family "Courier New"
CourierNew == <<67, 111, 117, 114, 105, 101, 114, 32, 78, 101, 119>>

\* Option<FileBrowser>: None, and Some browser with its mode and the file
\* name selected or typed in it
NoBrowser == [some |-> FALSE, is_save_mode |-> FALSE, selected_file |-> ""]

\* NodepatApp::default(): every String and Vec empty, every bool false,
\* every usize 0; no configuration file, so the default Config
AppDefault ==
    /\ text = <<>>
    /\ undo_history = <<>>
    /\ redo_history = <<>>
    /\ file_path = ""
    /\ is_modified = FALSE
    /\ encoding = ""
    /\ find_text = <<>>
    /\ replace_text = <<>>
    /\ case_sensitive = FALSE
    /\ search_down = FALSE
    /\ search_position = 0
    /\ cursor_line = 0
    /\ cursor_column = 0
    /\ recent_files = <<>>
    /\ font_family = CourierNew
    /\ show_open_dialog_flag = FALSE
    /\ show_save_dialog_flag = FALSE
    /\ file_browser = NoBrowser
    /\ windows = {}
    /\ count = 0
    /\ pc = "idle"

(***************************************************************************)
(* editor.rs: EditorState                                                  *)
(***************************************************************************)
\* The undo_history bound of save_undo_state
UndoLimit == 100

\* The EditorState of the session
EditorState ==
    [text |-> text, undo_history |-> undo_history,
     redo_history |-> redo_history]

\* save_undo_state without the eviction of the oldest entry
save_undo_state_unbounded(es) ==
    [es EXCEPT !.undo_history = Append(es.undo_history, es.text),
               !.redo_history = <<>>]

\* save_undo_state without the clearing of redo_history
save_undo_state_keeps_redo(es) ==
    LET pushed == Append(es.undo_history, es.text)
    IN  [es EXCEPT !.undo_history =
                       IF Len(pushed) > UndoLimit THEN Tail(pushed) ELSE pushed]

\* save_undo_state evicting the newest entry in place of the oldest
save_undo_state_evicts_newest(es) ==
    LET pushed == Append(es.undo_history, es.text)
    IN  [es EXCEPT !.undo_history =
                       IF Len(pushed) > UndoLimit THEN Front(pushed) ELSE pushed,
                   !.redo_history = <<>>]

\* redo that empties redo_history, as a push through save_undo_state does
redo_clearing(es) ==
    IF es.redo_history # <<>>
    THEN [ok |-> TRUE,
          es |-> [text |-> Last(es.redo_history),
                  undo_history |-> Append(es.undo_history, es.text),
                  redo_history |-> <<>>]]
    ELSE [ok |-> FALSE, es |-> es]

save_undo_state(es) ==
    LET pushed == Append(es.undo_history, es.text)
    IN  [es EXCEPT !.undo_history =
                       IF Len(pushed) > UndoLimit THEN Tail(pushed) ELSE pushed,
                   !.redo_history = <<>>]

\* The bool returned, and the EditorState left
undo(es) ==
    IF es.undo_history # <<>>
    THEN [ok |-> TRUE,
          es |-> [text |-> Last(es.undo_history),
                  undo_history |-> Front(es.undo_history),
                  redo_history |-> Append(es.redo_history, es.text)]]
    ELSE [ok |-> FALSE, es |-> es]

redo(es) ==
    IF es.redo_history # <<>>
    THEN [ok |-> TRUE,
          es |-> [text |-> Last(es.redo_history),
                  undo_history |-> Append(es.undo_history, es.text),
                  redo_history |-> Front(es.redo_history)]]
    ELSE [ok |-> FALSE, es |-> es]

SetEditor(es) ==
    /\ text' = es.text
    /\ undo_history' = es.undo_history
    /\ redo_history' = es.redo_history

\* Two decimal digits, {n:02}
Dec2(n) == <<48 + ((n \div 10) % 10), 48 + (n % 10)>>

RECURSIVE Dec(_)
\* The decimal digits of n, {n}
Dec(n) ==
    IF n < 10 THEN <<48 + n>> ELSE Append(Dec(n \div 10), 48 + (n % 10))

\* The stamp insert_time_date formats from the clock's seconds since the epoch
time_str(secs) ==
    LET datetime == secs % 86400
        hours == datetime \div 3600
        minutes == (datetime % 3600) \div 60
        seconds == datetime % 60
        days == secs \div 86400
        epoch_days == days + 719163
        year == 1970 + (epoch_days \div 365)
        day_of_year == epoch_days % 365
        month == (day_of_year \div 30) + 1
        day == (day_of_year % 30) + 1
    IN  Dec2(hours) \o <<58>> \o Dec2(minutes) \o <<58>> \o Dec2(seconds)
        \o <<32>> \o Dec2(month) \o <<47>> \o Dec2(day) \o <<47>> \o Dec(year)

(***************************************************************************)
(* file_ops.rs: FileState                                                  *)
(***************************************************************************)
\* The size limit taken for 60 kilobytes where load_file counts bytes
MaxFileSizeKilo == 60000 \div 1000

\* The size above which load_file refuses a file
MaxFileSize == 60000

NoFile == [exists |-> FALSE, data |-> <<>>]

File(bytes) == [exists |-> TRUE, data |-> bytes]

FileState ==
    [file_path |-> file_path, is_modified |-> is_modified,
     encoding |-> encoding]

\* The cascade with the content sniffed before the markers are looked for
detect_encoding_sniff_first(file_data) ==
    IF from_utf8_ok(file_data)
    THEN [decoded |-> Ok(from_utf8_lossy(file_data)), encoding_used |-> "UTF-8"]
    ELSE IF starts_with(file_data, <<255, 254>>)
    THEN [decoded |-> decode_utf16_le(SliceFrom(file_data, 2)),
          encoding_used |-> "UTF-16 LE"]
    ELSE IF starts_with(file_data, <<254, 255>>)
    THEN [decoded |-> decode_utf16_be(SliceFrom(file_data, 2)),
          encoding_used |-> "UTF-16 BE"]
    ELSE IF starts_with(file_data, <<239, 187, 191>>)
    THEN [decoded |-> Ok(from_utf8_lossy(SliceFrom(file_data, 3))),
          encoding_used |-> "UTF-8"]
    ELSE [decoded |-> Ok(decode_latin1(file_data)), encoding_used |-> "Latin1"]

\* The encoding cascade of load_file: the decoding and the tag it records
detect_encoding(file_data) ==
    IF starts_with(file_data, <<255, 254>>)
    THEN [decoded |-> decode_utf16_le(SliceFrom(file_data, 2)),
          encoding_used |-> "UTF-16 LE"]
    ELSE IF starts_with(file_data, <<254, 255>>)
    THEN [decoded |-> decode_utf16_be(SliceFrom(file_data, 2)),
          encoding_used |-> "UTF-16 BE"]
    ELSE IF starts_with(file_data, <<239, 187, 191>>)
    THEN [decoded |-> Ok(from_utf8_lossy(SliceFrom(file_data, 3))),
          encoding_used |-> "UTF-8"]
    ELSE IF from_utf8_ok(file_data)
    THEN [decoded |-> Ok(from_utf8_lossy(file_data)), encoding_used |-> "UTF-8"]
    ELSE [decoded |-> Ok(decode_latin1(file_data)), encoding_used |-> "Latin1"]

\* The size check of load_file
too_large(file_data) == Len(file_data) > MaxFileSize

\* load_file, were the path recorded as soon as the file has been read
load_file_recording_first(path) ==
    IF ~(path \in DOMAIN disk /\ disk[path].exists)
    THEN [res |-> "read_error", content |-> <<>>, fs |-> FileState]
    ELSE LET file_data == disk[path].data
             named == [FileState EXCEPT !.file_path = path]
         IN  IF too_large(file_data)
             THEN [res |-> "too_large", content |-> <<>>, fs |-> named]
             ELSE LET d == detect_encoding(file_data)
                  IN  IF ~d.decoded.ok
                      THEN [res |-> "invalid_encoding", content |-> <<>>,
                            fs |-> named]
                      ELSE [res |-> "ok", content |-> d.decoded.text,
                            fs |-> [file_path |-> path,
                                    is_modified |-> FALSE,
                                    encoding |-> d.encoding_used]]

\* load_file(path): the result ("ok" with the content, or the error) and the
\* FileState left
load_file(path) ==
    IF ~(path \in DOMAIN disk /\ disk[path].exists)
    THEN [res |-> "read_error", content |-> <<>>, fs |-> FileState]
    ELSE LET file_data == disk[path].data
         IN  IF too_large(file_data)
             THEN [res |-> "too_large", content |-> <<>>, fs |-> FileState]
             ELSE LET d == detect_encoding(file_data)
                  IN  IF ~d.decoded.ok
                      THEN [res |-> "invalid_encoding", content |-> <<>>,
                            fs |-> FileState]
                      ELSE [res |-> "ok", content |-> d.decoded.text,
                            fs |-> [file_path |-> path,
                                    is_modified |-> FALSE,
                                    encoding |-> d.encoding_used]]

\* The bytes written with the UTF-16 markers left out
encode_for_no_marker(enc, content) ==
    IF enc = "UTF-16 LE" THEN encode_utf16_le(content)
    ELSE IF enc = "UTF-16 BE" THEN encode_utf16_be(content)
    ELSE IF enc \in {"ANSI", "Latin1"} THEN encode_latin1(content)
    ELSE as_bytes(content)

\* The bytes save_file writes for the recorded encoding
encode_for(enc, content) ==
    IF enc = "UTF-16 LE" THEN <<255, 254>> \o encode_utf16_le(content)
    ELSE IF enc = "UTF-16 BE" THEN <<254, 255>> \o encode_utf16_be(content)
    ELSE IF enc \in {"ANSI", "Latin1"} THEN encode_latin1(content)
    ELSE as_bytes(content)

\* save_file, were the encoding guessed from the content and recorded
save_file_by_content(path, content, write_ok) ==
    LET guess == IF \A i \in 1..Len(content) : content[i] <= 255
                 THEN "Latin1" ELSE "UTF-8"
    IN  IF ~write_ok
        THEN [res |-> "write_error", disk |-> disk, fs |-> FileState]
        ELSE [res |-> "ok",
              disk |-> [disk EXCEPT
                            ![path] = File(encode_for(guess, content))],
              fs |-> [file_path |-> path, is_modified |-> FALSE,
                      encoding |-> guess]]

\* save_file(path, content): the result, the file system and the FileState
\* left; write_ok is whether fs::write succeeds
save_file(path, content, write_ok) ==
    IF ~write_ok
    THEN [res |-> "write_error", disk |-> disk, fs |-> FileState]
    ELSE [res |-> "ok",
          disk |-> [disk EXCEPT ![path] = File(encode_for(encoding, content))],
          fs |-> [file_path |-> path, is_modified |-> FALSE,
                  encoding |-> encoding]]

SetFile(fs) ==
    /\ file_path' = fs.file_path
    /\ is_modified' = fs.is_modified
    /\ encoding' = fs.encoding

(***************************************************************************)
(* search.rs: the string operations it uses.  Offsets and lengths are byte *)
(* offsets into the UTF-8 form of a String, as in Rust.                    *)
(***************************************************************************)
\* char::to_lowercase for the letters the model uses: A-Z, the Latin-1
\* capitals, U+0130 (whose lowercase is the two chars U+0069 U+0307) and
\* U+212B, the Angstrom sign (three bytes of UTF-8, whose lowercase U+00E5
\* is two); every other char of the model's alphabets has no lowercase form
CharLower(c) ==
    IF c >= 65 /\ c <= 90 THEN <<c + 32>>
    ELSE IF c >= 192 /\ c <= 222 /\ c # 215 THEN <<c + 32>>
    ELSE IF c = 304 THEN <<105, 775>>
    ELSE IF c = 8491 THEN <<229>>
    ELSE <<c>>

\* str::to_lowercase
to_lowercase(t) == Flatten([i \in 1..Len(t) |-> CharLower(t[i])])

\* str::len
str_len(t) == Len(as_bytes(t))

\* str::find(&pattern): the byte offset of the first occurrence, -1 for None
str_find(hay, needle) ==
    LET h == as_bytes(hay)
        n == as_bytes(needle)
        at == {i \in 0..(Len(h) - Len(n)) : SubSeq(h, i + 1, i + Len(n)) = n}
    IN  IF at = {} THEN -1 ELSE CHOOSE i \in at : \A j \in at : i <= j

\* str::contains
str_contains(hay, needle) == str_find(hay, needle) >= 0

\* str::is_char_boundary
is_char_boundary(t, i) ==
    LET b == as_bytes(t)
    IN  \/ i = 0
        \/ i = Len(b)
        \/ (i > 0 /\ i < Len(b) /\ ~IsCont(b[i + 1]))

\* Whether String::replace_range(start..end, _) panics
replace_range_panics(t, start, end) ==
    ~(start <= end /\ is_char_boundary(t, start) /\ is_char_boundary(t, end))

\* String::replace_range(start..end, with), where it does not panic
replace_range(t, start, end, with) ==
    LET b == as_bytes(t)
    IN  from_utf8_lossy(SubSeq(b, 1, start) \o as_bytes(with)
                        \o SubSeq(b, end + 1, Len(b)))

\* str::replacen(pat, to, 1), were the occurrence removed and nothing put
\* in its place
replacen_1_removing(t, pat, to) ==
    LET pos == str_find(t, pat)
    IN  IF pos < 0 THEN t ELSE replace_range(t, pos, pos + str_len(pat), <<>>)

\* str::replacen(pat, to, 1): the first occurrence replaced, if there is one
replacen_1(t, pat, to) ==
    LET pos == str_find(t, pat)
    IN  IF pos < 0 THEN t ELSE replace_range(t, pos, pos + str_len(pat), to)

\* The haystack and needle find_next, replace_current and replace_all compare
search_haystack == IF case_sensitive THEN text ELSE to_lowercase(text)

search_needle == IF case_sensitive THEN find_text ELSE to_lowercase(find_text)

\* The byte offsets at which the bytes n occur in the bytes h
occurrences(h, n) ==
    {i \in 0..(Len(h) - Len(n)) : SubSeq(h, i + 1, i + Len(n)) = n}

\* str::find on the bytes of a slice: the first occurrence, -1 for None
find_in(h, n) ==
    LET at == occurrences(h, n)
    IN  IF at = {} THEN -1 ELSE CHOOSE i \in at : \A j \in at : i <= j

\* str::rfind on the bytes of a slice: the last occurrence, -1 for None
rfind_in(h, n) ==
    LET at == occurrences(h, n)
    IN  IF at = {} THEN -1 ELSE CHOOSE i \in at : \A j \in at : i >= j

\* Whether the slices text[start_pos..] and text[..start_pos] panic
slice_panics(t, start_pos) == ~is_char_boundary(t, start_pos)

(***************************************************************************)
(* editor.rs: the cursor position                                          *)
(***************************************************************************)
\* Whether position_to_line_column(pos) panics: &text[..pos.min(len)] off a
\* char boundary
position_to_line_column_panics(t, pos) ==
    LET clamped == IF pos < str_len(t) THEN pos ELSE str_len(t)
    IN  slice_panics(t, clamped)

\* position_to_line_column(pos), where it does not panic: <<line, column>>
position_to_line_column(t, pos) ==
    LET b == as_bytes(t)
        clamped == IF pos < Len(b) THEN pos ELSE Len(b)
        newlines == {i \in 1..clamped : b[i] = 10}
        last_newline ==
            IF newlines = {} THEN 0
            ELSE CHOOSE i \in newlines : \A j \in newlines : i >= j
    IN  <<Cardinality(newlines) + 1, pos - last_newline + 1>>

(***************************************************************************)
(* config.rs: the configuration file.  A String is the sequence of its     *)
(* chars.                                                                  *)
(***************************************************************************)
\* str::replace(from, to): every non-overlapping occurrence, left to right
RECURSIVE str_replace(_, _, _)
str_replace(s, from, to) ==
    IF Len(s) < Len(from) THEN s
    ELSE IF SubSeq(s, 1, Len(from)) = from
    THEN to \o str_replace(SubSeq(s, Len(from) + 1, Len(s)), from, to)
    ELSE <<s[1]>> \o str_replace(SubSeq(s, 2, Len(s)), from, to)

\* str::trim, for the white space of the model's alphabets
trim(s) ==
    LET inked == {i \in 1..Len(s) : s[i] \notin {9, 10, 11, 12, 13, 32}}
    IN  IF inked = {} THEN <<>>
        ELSE SubSeq(s, CHOOSE i \in inked : \A j \in inked : i <= j,
                    CHOOSE i \in inked : \A j \in inked : i >= j)

\* strip_prefix(open).and_then(strip_suffix(close)); ok is FALSE for None
strip_pair(s, open, close) ==
    IF Len(s) >= 2 /\ s[1] = open /\ s[Len(s)] = close
    THEN [ok |-> TRUE, s |-> SubSeq(s, 2, Len(s) - 1)]
    ELSE [ok |-> FALSE, s |-> <<>>]

\* Config::string_to_json: \ " LF CR TAB escaped, in that order
string_to_json(s) ==
    <<34>>
    \o str_replace(str_replace(str_replace(str_replace(str_replace(s,
           <<92>>, <<92, 92>>), <<34>>, <<92, 34>>), <<10>>, <<92, 110>>),
           <<13>>, <<92, 114>>), <<9>>, <<92, 116>>)
    \o <<34>>

\* itertools join(", ")
RECURSIVE join_items(_)
join_items(items) ==
    IF Len(items) = 0 THEN <<>>
    ELSE IF Len(items) = 1 THEN items[1]
    ELSE items[1] \o <<44, 32>> \o join_items(Tail(items))

\* Config::string_array_to_json
string_array_to_json(arr) ==
    IF arr = <<>> THEN <<91, 93>>
    ELSE <<91>> \o join_items([i \in 1..Len(arr) |-> string_to_json(arr[i])])
         \o <<93>>

\* The fields to_json writes after font_family, for the default settings
OtherFields ==
    <<32, 32, 34, 102, 111, 110, 116, 95, 102, 97, 109, 105, 108, 121, 95,
      116, 121, 112, 101, 34, 58, 32, 34, 109, 111, 110, 111, 115, 112, 97,
      99, 101, 34, 44, 10, 32, 32, 34, 102, 111, 110, 116, 95, 115, 116,
      121, 108, 101, 34, 58, 32, 34, 114, 101, 103, 117, 108, 97, 114, 34,
      44, 10, 32, 32, 34, 102, 111, 110, 116, 95, 115, 105, 122, 101, 34,
      58, 32, 49, 48, 44, 10, 32, 32, 34, 115, 104, 111, 119, 95, 115, 116,
      97, 116, 117, 115, 95, 98, 97, 114, 34, 58, 32, 102, 97, 108, 115,
      101, 44, 10, 32, 32, 34, 100, 97, 114, 107, 95, 109, 111, 100, 101,
      34, 58, 32, 116, 114, 117, 101, 44, 10, 32, 32, 34, 119, 105, 110,
      100, 111, 119, 95, 119, 105, 100, 116, 104, 34, 58, 32, 54, 52, 48,
      44, 10, 32, 32, 34, 119, 105, 110, 100, 111, 119, 95, 104, 101, 105,
      103, 104, 116, 34, 58, 32, 52, 56, 48, 10>>

\* Config::to_json
to_json(rf, family) ==
    <<123, 10>>
    \o <<32, 32, 34, 114, 101, 99, 101, 110, 116, 95, 102, 105, 108, 101, 115, 34, 58, 32>> \o string_array_to_json(rf)
    \o <<44, 10>>
    \o <<32, 32, 34, 102, 111, 110, 116, 95, 102, 97, 109, 105, 108, 121, 34, 58, 32>> \o string_to_json(family)
    \o <<44, 10>>
    \o OtherFields
    \o <<125>>

\* Config::parse_string: the quotes stripped, then \" \\ \n \r \t replaced,
\* in that order
parse_string(value) ==
    LET q == strip_pair(trim(value), 34, 34)
    IN  [ok |-> q.ok,
         s |-> str_replace(str_replace(str_replace(str_replace(str_replace(
                   q.s, <<92, 34>>, <<34>>), <<92, 92>>, <<92>>),
                   <<92, 110>>, <<10>>), <<92, 114>>, <<13>>),
                   <<92, 116>>, <<9>>)]

\* The loop of split_json_fields (nested) and of split_json_array_items,
\* from the char i on: the pieces between the commas outside strings (and,
\* when nested, outside brackets).  Chars that neither loop looks at are
\* passed over in one step.
RECURSIVE split_from(_, _, _, _, _, _, _)
split_from(s, i, start, depth, in_string, escape_next, nested) ==
    LET from == IF escape_next THEN i + 1 ELSE i
        looked_at ==
            {j \in from..Len(s) : s[j] \in {92, 34, 44, 123, 91, 125, 93}}
        k == IF looked_at = {} THEN Len(s) + 1
             ELSE CHOOSE j \in looked_at : \A o \in looked_at : j <= o
    IN  IF k > Len(s)
        THEN IF start <= Len(s) THEN <<SubSeq(s, start, Len(s))>> ELSE <<>>
        ELSE IF s[k] = 92
        THEN split_from(s, k + 1, start, depth, in_string, TRUE, nested)
        ELSE IF s[k] = 34
        THEN split_from(s, k + 1, start, depth, ~in_string, FALSE, nested)
        ELSE IF in_string
        THEN split_from(s, k + 1, start, depth, in_string, FALSE, nested)
        ELSE IF nested /\ s[k] \in {123, 91}
        THEN split_from(s, k + 1, start, depth + 1, in_string, FALSE, nested)
        ELSE IF nested /\ s[k] \in {125, 93}
        THEN split_from(s, k + 1, start, depth - 1, in_string, FALSE, nested)
        ELSE IF s[k] = 44 /\ depth = 0
        THEN <<SubSeq(s, start, k - 1)>>
             \o split_from(s, k + 1, k + 1, depth, in_string, FALSE, nested)
        ELSE split_from(s, k + 1, start, depth, in_string, FALSE, nested)

\* Config::split_json_fields
split_json_fields(json) == split_from(json, 1, 1, 0, FALSE, FALSE, TRUE)

\* Config::split_json_array_items
split_json_array_items(array_content) ==
    split_from(array_content, 1, 1, 0, FALSE, FALSE, FALSE)

\* Config::parse_string_array
parse_string_array(value) ==
    LET a == strip_pair(trim(value), 91, 93)
        items == split_json_array_items(a.s)
        parsed == [i \in 1..Len(items) |-> parse_string(trim(items[i]))]
    IN  IF ~a.ok THEN [ok |-> FALSE, arr |-> <<>>]
        ELSE IF trim(a.s) = <<>> THEN [ok |-> TRUE, arr |-> <<>>]
        ELSE [ok |-> \A i \in 1..Len(items) : parsed[i].ok,
              arr |-> [i \in 1..Len(items) |-> parsed[i].s]]

\* Config::parse_field: the key without its quotes, and the value
parse_field(field) ==
    LET f == trim(field)
        colons == {i \in 1..Len(f) : f[i] = 58}
        colon_pos == CHOOSE i \in colons : \A j \in colons : i <= j
        key == strip_pair(trim(SubSeq(f, 1, colon_pos - 1)), 34, 34)
    IN  IF colons = {} THEN [ok |-> FALSE, key |-> <<>>, value |-> <<>>]
        ELSE [ok |-> key.ok, key |-> key.s,
              value |-> trim(SubSeq(f, colon_pos + 1, Len(f)))]

\* The keys whose values parse_json reads as a string, and as a bool
KeyRecentFiles == <<114, 101, 99, 101, 110, 116, 95, 102, 105, 108, 101, 115>>

KeyFontFamily == <<102, 111, 110, 116, 95, 102, 97, 109, 105, 108, 121>>

StringKeys ==
    {<<102, 111, 110, 116, 95, 102, 97, 109, 105, 108, 121, 95, 116, 121, 112, 101>>,
     <<102, 111, 110, 116, 95, 115, 116, 121, 108, 101>>}

BoolKeys ==
    {<<115, 104, 111, 119, 95, 115, 116, 97, 116, 117, 115, 95, 98, 97, 114>>,
     <<100, 97, 114, 107, 95, 109, 111, 100, 101>>}

BoolWords == {<<116, 114, 117, 101>>, <<102, 97, 108, 115, 101>>}

\* Whether parse_json accepts the field: its `?` on parse_field and on the
\* value of a key it knows
field_ok(field) ==
    LET kv == parse_field(field)
    IN  /\ kv.ok
        /\ kv.key = KeyRecentFiles => parse_string_array(kv.value).ok
        /\ kv.key \in {KeyFontFamily} \cup StringKeys =>
               parse_string(kv.value).ok
        /\ kv.key \in BoolKeys => trim(kv.value) \in BoolWords

\* The value of the last field with the key, parsed by parse, or the
\* default when there is none
field_value(fields, key, parse(_), default) ==
    LET at == {i \in 1..Len(fields) : parse_field(fields[i]).key = key}
    IN  IF at = {} THEN default
        ELSE parse(parse_field(fields[CHOOSE i \in at : \A j \in at : i >= j])
                       .value)

\* Config::parse_json: the recent files and the font family of the text, or
\* the error
parse_json(json) ==
    LET body == strip_pair(trim(json), 123, 125)
        fields == split_json_fields(body.s)
        rf(v) == parse_string_array(v).arr
        ff(v) == parse_string(v).s
    IN  IF ~body.ok \/ \E i \in 1..Len(fields) : ~field_ok(fields[i])
        THEN [ok |-> FALSE, recent_files |-> <<>>, font_family |-> CourierNew]
        ELSE [ok |-> TRUE,
              recent_files |-> field_value(fields, KeyRecentFiles, rf, <<>>),
              font_family |->
                  field_value(fields, KeyFontFamily, ff, CourierNew)]

(***************************************************************************)
(* config.rs: the recent files                                             *)
(***************************************************************************)
\* The limit add_recent_file truncates to
RecentLimit == 10

\* The recent files the File menu shows
RecentShown == 5

\* add_recent_file, were the path not removed before it is put in front
add_recent_file_keeping(rf, path) ==
    LET added == <<path>> \o rf
    IN  IF Len(added) > RecentLimit THEN SubSeq(added, 1, RecentLimit)
        ELSE added

\* add_recent_file(file_path) on the list rf: the list left
add_recent_file(rf, path) ==
    LET kept == SelectSeq(rf, LAMBDA f : f # path)
        added == <<path>> \o kept
    IN  IF Len(added) > RecentLimit THEN SubSeq(added, 1, RecentLimit)
        ELSE added

\* FileState::add_to_recent_files, for the FileState fs
add_to_recent_files(fs, rf) ==
    IF fs.file_path # "" THEN add_recent_file(rf, fs.file_path) ELSE rf

(***************************************************************************)
(* The handlers, one action each.  Every handler runs to completion on the *)
(* UI thread: none starts while replace_all is in its loop or after a      *)
(* panic.                                                                  *)
(***************************************************************************)
Done(name, result) == op' = name /\ res' = result

Bool(b) == IF b THEN "true" ELSE "false"

\* show_editor: the TextEdit widget has changed the text it is bound to
text_edit(t) ==
    /\ pc = "idle"
    /\ text' = t
    /\ Done("text_edit", "none")
    /\ UNCHANGED <<font_family, dialogVars, cursorVars, recent_files, undo_history, redo_history, fileVars, searchVars, count, pc,
                   disk, saved_text>>

\* Ctrl+Z and Edit > Undo
Undo ==
    /\ pc = "idle"
    /\ LET r == undo(EditorState)
       IN  /\ SetEditor(r.es)
           /\ is_modified' = (r.ok \/ is_modified)
           /\ Done("undo", Bool(r.ok))
    /\ UNCHANGED <<font_family, dialogVars, cursorVars, recent_files, file_path, encoding, searchVars, count, pc, disk, saved_text>>

\* Ctrl+Y and Edit > Redo
Redo ==
    /\ pc = "idle"
    /\ LET r == redo(EditorState)
       IN  /\ SetEditor(r.es)
           /\ is_modified' = (r.ok \/ is_modified)
           /\ Done("redo", Bool(r.ok))
    /\ UNCHANGED <<font_family, dialogVars, cursorVars, recent_files, file_path, encoding, searchVars, count, pc, disk, saved_text>>

\* F5 and Edit > Time/Date; secs is the clock
insert_time_date(secs) ==
    /\ pc = "idle"
    /\ text' = text \o time_str(secs)
    /\ is_modified' = TRUE
    /\ Done("insert_time_date", "none")
    /\ UNCHANGED <<font_family, dialogVars, cursorVars, recent_files, undo_history, redo_history, file_path, encoding, searchVars,
                   count, pc, disk, saved_text>>

\* Edit > Cut; handle_paste and handle_delete have the same body
handle_cut ==
    /\ pc = "idle"
    /\ SetEditor(save_undo_state(EditorState))
    /\ is_modified' = TRUE
    /\ Done("save_undo_state", "none")
    /\ UNCHANGED <<font_family, dialogVars, cursorVars, recent_files, file_path, encoding, searchVars, count, pc, disk, saved_text>>

\* Ctrl+N and File > New
handle_new_file ==
    /\ pc = "idle"
    /\ text' = <<>>
    /\ undo_history' = <<>>
    /\ redo_history' = <<>>
    /\ file_path' = ""
    /\ is_modified' = FALSE
    /\ saved_text' = <<>>
    /\ Done("new", "none")
    /\ UNCHANGED <<font_family, dialogVars, cursorVars, recent_files, encoding, searchVars, count, pc, disk>>

\* Ctrl+S and File > Save; without a path it only asks for the Save dialog
handle_save(write_ok) ==
    /\ pc = "idle"
    /\ IF file_path = ""
       THEN /\ show_save_dialog_flag' = TRUE
            /\ Done("save", "dialog")
            /\ UNCHANGED <<fileVars, disk, saved_text>>
       ELSE \E r \in {save_file(file_path, text, write_ok)} :
                /\ SetFile(r.fs)
                /\ disk' = r.disk
                /\ saved_text' = IF r.res = "ok" THEN text ELSE saved_text
                /\ Done("save", r.res)
                /\ UNCHANGED show_save_dialog_flag
    /\ UNCHANGED <<font_family, show_open_dialog_flag, file_browser, windows,
                   cursorVars, recent_files, editorVars, searchVars, count, pc>>

\* show_open_dialog once its browser has given a path: the load, and the
\* dialog closed
open_dialog_result(path) ==
    /\ pc = "idle"
    /\ show_open_dialog_flag' = FALSE
    /\ \E r \in {load_file(path)} :
           /\ SetFile(r.fs)
           /\ Done("load", r.res)
           /\ IF r.res = "ok"
              THEN /\ text' = r.content
                   /\ undo_history' = <<>>
                   /\ redo_history' = <<>>
                   /\ saved_text' = r.content
                   /\ recent_files' = add_to_recent_files(r.fs, recent_files)
              ELSE UNCHANGED <<editorVars, saved_text, recent_files>>
    /\ UNCHANGED <<font_family, cursorVars, searchVars, count, pc, disk>>

\* The Open dialog, alone, has given a path
show_open_dialog(path) ==
    /\ open_dialog_result(path)
    /\ file_browser' = NoBrowser
    /\ UNCHANGED <<show_save_dialog_flag, windows>>

\* show_save_dialog once its browser has given a path: the save, and the
\* dialog closed
save_dialog_result(path, write_ok) ==
    /\ pc = "idle"
    /\ show_save_dialog_flag' = FALSE
    /\ \E r \in {save_file(path, text, write_ok)} :
           /\ SetFile(r.fs)
           /\ disk' = r.disk
           /\ saved_text' = IF r.res = "ok" THEN text ELSE saved_text
           /\ recent_files' = IF r.res = "ok"
                              THEN add_to_recent_files(r.fs, recent_files)
                              ELSE recent_files
           /\ Done("save", r.res)
    /\ UNCHANGED <<font_family, cursorVars, editorVars, searchVars, count, pc>>

\* The Save dialog, alone, has given a path
show_save_dialog(path, write_ok) ==
    /\ save_dialog_result(path, write_ok)
    /\ file_browser' = NoBrowser
    /\ UNCHANGED <<show_open_dialog_flag, windows>>

\* FileBrowser::new(_, is_save_mode, _), and set_selected_file(name): the
\* directory is left out, a file name stands for its path
NewBrowser(is_save_mode, name) ==
    [some |-> TRUE, is_save_mode |-> is_save_mode, selected_file |-> name]

\* What the user does in one frame: nothing, or one click or edit on a
\* widget of the window w ("open" for "Open File", "save" for "Save File")
NoClick == [kind |-> "none", w |-> "", name |-> ""]

\* FileBrowser::show when the frame's click is click (NoClick when it is on
\* another window): an entry of the list selects its name, the File name
\* field exists in save mode only, the Open/Save button is enabled when a
\* name is selected and gives the path in save mode or when the file
\* exists, Cancel gives the empty path
browser_show(b, click, fs) ==
    IF click.kind = "entry" /\ fs[click.name].exists
    THEN [b |-> [b EXCEPT !.selected_file = click.name], result |-> "none"]
    ELSE IF click.kind = "type" /\ b.is_save_mode
    THEN [b |-> [b EXCEPT !.selected_file = click.name], result |-> "none"]
    ELSE IF /\ click.kind = "button"
            /\ b.selected_file # ""
            /\ (b.is_save_mode \/ fs[b.selected_file].exists)
    THEN [b |-> b, result |-> "path"]
    ELSE IF click.kind = "cancel" THEN [b |-> b, result |-> "cancelled"]
    ELSE [b |-> b, result |-> "none"]

\* The browser show_open_dialog shows: a new one for Open if the slot is
\* empty, else the one in the slot
open_dialog_browser ==
    IF file_browser.some THEN file_browser ELSE NewBrowser(FALSE, "")

\* The browser show_save_dialog shows when the slot holds slot and the
\* document's path is path: a new one for Save, the document's file name
\* filled in, if the slot is empty, else the one in the slot
save_dialog_browser(slot, path) ==
    IF slot.some THEN slot ELSE NewBrowser(TRUE, path)

\* The dialog windows show_dialogs draws in this frame
drawn ==
    {w \in {"open", "save"} :
        \/ w = "open" /\ show_open_dialog_flag
        \/ w = "save" /\ show_save_dialog_flag}

\* Ctrl+O and File > Open
press_open ==
    /\ pc = "idle"
    /\ show_open_dialog_flag' = TRUE
    /\ Done("press_open", "none")
    /\ UNCHANGED <<font_family, show_save_dialog_flag, file_browser, windows,
                   cursorVars, recent_files, editorVars, fileVars,
                   searchVars, count, pc, disk, saved_text>>

\* File > Save As
press_save_as ==
    /\ pc = "idle"
    /\ show_save_dialog_flag' = TRUE
    /\ Done("press_save_as", "none")
    /\ UNCHANGED <<font_family, show_open_dialog_flag, file_browser, windows,
                   cursorVars, recent_files, editorVars, fileVars,
                   searchVars, count, pc, disk, saved_text>>

\* show_dialogs, one frame: show_open_dialog if its flag is set, then
\* show_save_dialog if its flag is set, both on the one file_browser slot.
\* The click of the frame is on a window drawn in the frame before.
show_dialogs(click, write_ok) ==
    /\ pc = "idle"
    /\ click.w # "" => click.w \in windows \cap drawn
    /\ windows' = drawn
    /\ LET opened == browser_show(open_dialog_browser,
                         IF click.w = "open" THEN click ELSE NoClick, disk)
           slot == IF show_open_dialog_flag THEN opened.b ELSE file_browser
           saved == browser_show(save_dialog_browser(slot, file_path),
                        IF click.w = "save" THEN click ELSE NoClick, disk)
       IN  IF show_open_dialog_flag /\ opened.result = "path"
           THEN \* the load, the slot emptied; then show_save_dialog on the
                \* empty slot
                /\ open_dialog_result(opened.b.selected_file)
                /\ file_browser' = IF show_save_dialog_flag
                                   THEN NewBrowser(TRUE, file_path')
                                   ELSE NoBrowser
                /\ UNCHANGED show_save_dialog_flag
           ELSE IF show_open_dialog_flag /\ opened.result = "cancelled"
           THEN /\ show_open_dialog_flag' = FALSE
                /\ file_browser' = IF show_save_dialog_flag
                                   THEN NewBrowser(TRUE, file_path)
                                   ELSE NoBrowser
                /\ Done("show_dialogs", "open cancelled")
                /\ UNCHANGED <<font_family, show_save_dialog_flag,
                               cursorVars, recent_files, editorVars,
                               fileVars, searchVars, count, pc, disk,
                               saved_text>>
           ELSE IF show_save_dialog_flag /\ saved.result = "path"
           THEN /\ save_dialog_result(saved.b.selected_file, write_ok)
                /\ file_browser' = NoBrowser
                /\ UNCHANGED show_open_dialog_flag
           ELSE IF show_save_dialog_flag /\ saved.result = "cancelled"
           THEN /\ show_save_dialog_flag' = FALSE
                /\ file_browser' = NoBrowser
                /\ Done("show_dialogs", "save cancelled")
                /\ UNCHANGED <<font_family, show_open_dialog_flag,
                               cursorVars, recent_files, editorVars,
                               fileVars, searchVars, count, pc, disk,
                               saved_text>>
           ELSE /\ file_browser' = IF show_save_dialog_flag THEN saved.b
                                   ELSE slot
                /\ Done("show_dialogs", "none")
                /\ UNCHANGED <<font_family, show_open_dialog_flag,
                               show_save_dialog_flag, cursorVars,
                               recent_files, editorVars, fileVars,
                               searchVars, count, pc, disk, saved_text>>

\* The Find and Replace dialogs' fields, as the user edits them
edit_search_fields(f, r, cs, down) ==
    /\ pc = "idle"
    /\ find_text' = f
    /\ replace_text' = r
    /\ case_sensitive' = cs
    /\ search_down' = down
    /\ Done("edit_search_fields", "none")
    /\ UNCHANGED <<font_family, dialogVars, cursorVars, recent_files, editorVars, fileVars, search_position, count, pc, disk,
                   saved_text>>

\* Replace
replace_current ==
    /\ pc = "idle"
    /\ LET pos == str_find(search_haystack, search_needle)
           end_pos == pos + str_len(search_needle)
           saved == save_undo_state(EditorState)
       IN  IF find_text = <<>> \/ pos < 0
           THEN /\ Done("replace_current", "false")
                /\ UNCHANGED <<editorVars, is_modified, search_position, pc>>
           ELSE IF replace_range_panics(text, pos, end_pos)
           THEN /\ SetEditor(saved)
                /\ pc' = "panicked"
                /\ Done("replace_current", "panic")
                /\ UNCHANGED <<is_modified, search_position>>
           ELSE /\ SetEditor([saved EXCEPT !.text =
                                 replace_range(text, pos, end_pos, replace_text)])
                /\ is_modified' = TRUE
                /\ search_position' = pos + str_len(replace_text)
                /\ Done("replace_current", "true")
                /\ UNCHANGED pc
    /\ UNCHANGED <<font_family, dialogVars, cursorVars, recent_files, file_path, encoding, find_text, replace_text, case_sensitive,
                   search_down, count, disk, saved_text>>

\* Replace All, were the checkpoint taken before find_text is looked at
replace_all_begin_unguarded ==
    /\ pc = "idle"
    /\ SetEditor(save_undo_state(EditorState))
    /\ IF find_text = <<>>
       THEN /\ Done("replace_all", "0")
            /\ UNCHANGED <<count, pc>>
       ELSE /\ count' = 0
            /\ pc' = "replace_all"
            /\ Done("replace_all", "running")
    /\ UNCHANGED <<font_family, dialogVars, cursorVars, recent_files, fileVars, searchVars, disk,
                   saved_text>>

\* Replace All, up to its loop
replace_all_begin ==
    /\ pc = "idle"
    /\ IF find_text = <<>>
       THEN /\ Done("replace_all", "0")
            /\ UNCHANGED <<editorVars, count, pc>>
       ELSE /\ SetEditor(save_undo_state(EditorState))
            /\ count' = 0
            /\ pc' = "replace_all"
            /\ Done("replace_all", "running")
    /\ UNCHANGED <<font_family, dialogVars, cursorVars, recent_files, fileVars, searchVars, disk, saved_text>>

\* One pass of the loop, were a checkpoint taken for every replacement
replace_all_step_checkpointing ==
    /\ pc = "replace_all"
    /\ IF case_sensitive
       THEN /\ str_contains(text, find_text)
            /\ SetEditor([save_undo_state(EditorState) EXCEPT !.text =
                              replacen_1(text, find_text, replace_text)])
            /\ count' = count + 1
            /\ UNCHANGED <<pc, res>>
       ELSE LET pos == str_find(to_lowercase(text), to_lowercase(find_text))
                end_pos == pos + str_len(find_text)
            IN  /\ pos >= 0
                /\ IF replace_range_panics(text, pos, end_pos)
                   THEN /\ pc' = "panicked"
                        /\ res' = "panic"
                        /\ UNCHANGED <<editorVars, count>>
                   ELSE /\ SetEditor([save_undo_state(EditorState)
                                         EXCEPT !.text = replace_range(
                                             text, pos, end_pos, replace_text)])
                        /\ count' = count + 1
                        /\ UNCHANGED <<pc, res>>
    /\ UNCHANGED <<font_family, dialogVars, cursorVars, recent_files, fileVars, searchVars, disk, op,
                   saved_text>>

\* One pass of replace_all's loop whose condition holds
replace_all_step ==
    /\ pc = "replace_all"
    /\ IF case_sensitive
       THEN /\ str_contains(text, find_text)
            /\ text' = replacen_1(text, find_text, replace_text)
            /\ count' = count + 1
            /\ UNCHANGED <<pc, res>>
       ELSE LET pos == str_find(to_lowercase(text), to_lowercase(find_text))
                end_pos == pos + str_len(find_text)
            IN  /\ pos >= 0
                /\ IF replace_range_panics(text, pos, end_pos)
                   THEN /\ pc' = "panicked"
                        /\ res' = "panic"
                        /\ UNCHANGED <<text, count>>
                   ELSE /\ text' = replace_range(text, pos, end_pos, replace_text)
                        /\ count' = count + 1
                        /\ UNCHANGED <<pc, res>>
    /\ UNCHANGED <<font_family, dialogVars, cursorVars, recent_files, undo_history, redo_history, fileVars, searchVars, disk, op,
                   saved_text>>

\* The end of replace_all, were is_modified set whatever the count
replace_all_end_sets_modified ==
    /\ pc = "replace_all"
    /\ IF case_sensitive
       THEN ~str_contains(text, find_text)
       ELSE str_find(to_lowercase(text), to_lowercase(find_text)) < 0
    /\ is_modified' = TRUE
    /\ pc' = "idle"
    /\ Done("replace_all", "returned")
    /\ UNCHANGED <<font_family, dialogVars, cursorVars, recent_files, editorVars, file_path, encoding,
                   searchVars, count, disk, saved_text>>

\* replace_all once its loop condition fails
replace_all_end ==
    /\ pc = "replace_all"
    /\ IF case_sensitive
       THEN ~str_contains(text, find_text)
       ELSE str_find(to_lowercase(text), to_lowercase(find_text)) < 0
    /\ is_modified' = (count > 0 \/ is_modified)
    /\ pc' = "idle"
    /\ Done("replace_all", "returned")
    /\ UNCHANGED <<font_family, dialogVars, cursorVars, recent_files, editorVars, file_path, encoding, searchVars, count, disk,
                   saved_text>>

\* File > one of the first five recent files, by its index
show_file_menu(idx) ==
    /\ pc = "idle"
    /\ idx >= 1 /\ idx <= Len(recent_files) /\ idx <= RecentShown
    /\ \E r \in {load_file(recent_files[idx])} :
           /\ SetFile(r.fs)
           /\ Done("load_recent", r.res)
           /\ IF r.res = "ok"
              THEN /\ text' = r.content
                   /\ undo_history' = <<>>
                   /\ redo_history' = <<>>
                   /\ saved_text' = r.content
              ELSE UNCHANGED <<editorVars, saved_text>>
    /\ UNCHANGED <<font_family, dialogVars, cursorVars, recent_files, searchVars, count, pc, disk>>

\* show_editor: the TextEdit widget reports its cursor at cursor_pos
show_editor(cursor_pos) ==
    /\ pc = "idle"
    /\ IF position_to_line_column_panics(text, cursor_pos)
       THEN /\ pc' = "panicked"
            /\ Done("show_editor", "panic")
            /\ UNCHANGED cursorVars
       ELSE /\ cursor_line' = position_to_line_column(text, cursor_pos)[1]
            /\ cursor_column' = position_to_line_column(text, cursor_pos)[2]
            /\ Done("show_editor", "none")
            /\ UNCHANGED pc
    /\ UNCHANGED <<font_family, dialogVars, editorVars, fileVars, searchVars, recent_files, count, disk,
                   saved_text>>

\* Config::save; write_ok is whether fs::write succeeds
config_save(write_ok) ==
    /\ pc = "idle"
    /\ IF write_ok
       THEN /\ disk' = [disk EXCEPT !["config.jsonc"] =
                            File(as_bytes(to_json(recent_files, font_family)))]
            /\ Done("config_save", "ok")
       ELSE /\ UNCHANGED disk
            /\ Done("config_save", "write_error")
    /\ UNCHANGED <<font_family, dialogVars, editorVars, fileVars, searchVars,
                   cursorVars, recent_files, count, pc, saved_text>>

\* Config::load: the configuration of the file, or the default one when the
\* file cannot be read as text or does not parse
config_load ==
    /\ pc = "idle"
    /\ LET file == disk["config.jsonc"]
           readable == file.exists /\ from_utf8_ok(file.data)
       IN  \E config \in {IF readable
                           THEN parse_json(from_utf8_lossy(file.data))
                           ELSE parse_json(<<>>)} :
               /\ recent_files' = config.recent_files
               /\ font_family' = config.font_family
               /\ Done("config_load", IF config.ok THEN "parsed" ELSE "default")
    /\ UNCHANGED <<dialogVars, editorVars, fileVars, searchVars, cursorVars,
                   count, pc, disk, saved_text>>

\* Config::add_recent_file(path), as the tests of config.rs call it
config_add_recent_file(path) ==
    /\ pc = "idle"
    /\ recent_files' = add_recent_file(recent_files, path)
    /\ Done("add_recent_file", path)
    /\ UNCHANGED <<font_family, dialogVars, editorVars, fileVars, searchVars, cursorVars, count, pc,
                   disk, saved_text>>

\* Find Next
find_next ==
    /\ pc = "idle"
    /\ LET h == as_bytes(search_haystack)
           n == as_bytes(search_needle)
           start_pos == IF search_down THEN search_position ELSE 0
           head == SubSeq(h, 1, start_pos)
           tail == SubSeq(h, start_pos + 1, Len(h))
           found(pos) == /\ search_position' = pos
                         /\ Done("find_next", "true")
                         /\ UNCHANGED pc
           none == /\ Done("find_next", "false")
                   /\ UNCHANGED <<search_position, pc>>
       IN  IF find_text = <<>> THEN none
           ELSE IF slice_panics(search_haystack, start_pos)
           THEN /\ pc' = "panicked"
                /\ Done("find_next", "panic")
                /\ UNCHANGED search_position
           ELSE IF search_down
           THEN IF find_in(tail, n) >= 0
                THEN found(start_pos + find_in(tail, n) + Len(n))
                ELSE IF find_in(head, n) >= 0
                THEN found(find_in(head, n) + Len(n))
                ELSE none
           ELSE IF rfind_in(head, n) >= 0
                THEN found(rfind_in(head, n))
                ELSE IF rfind_in(tail, n) >= 0
                THEN found(start_pos + rfind_in(tail, n))
                ELSE none
    /\ UNCHANGED <<font_family, dialogVars, editorVars, fileVars, find_text, replace_text,
                   case_sensitive, search_down, cursorVars, recent_files,
                   count, disk, saved_text>>

(***************************************************************************)
(* What the properties below observe besides the program's own state: the  *)
(* handler that ran last and its result (op, res), the session before it   *)
(* ran (pre), and the text of the last successful load or save, empty for  *)
(* a new document (saved_text).                                            *)
(***************************************************************************)
\* The session before start-up: nothing held, no file
NoSession ==
    [text |-> <<>>, undo_history |-> <<>>, redo_history |-> <<>>,
     file_path |-> "", is_modified |-> FALSE, encoding |-> "",
     search_position |-> 0, cursor_line |-> 0, cursor_column |-> 0,
     recent_files |-> <<>>, font_family |-> CourierNew,
     disk |-> [p \in {"a.txt"} |-> NoFile]]

Observed ==
    op = "init" /\ res = "none" /\ saved_text = <<>> /\ pre = NoSession

\* A step that records the session it starts from, and one that leaves the
\* record as it is
Track == pre' = Session

Keep == UNCHANGED pre

\* A step after which no earlier session is held
Forget == pre' = NoSession

PreEditor ==
    [text |-> pre.text, undo_history |-> pre.undo_history,
     redo_history |-> pre.redo_history]

\* undo_history ++ [text] ++ reverse(redo_history)
Timeline(es) == es.undo_history \o <<es.text>> \o Rev(es.redo_history)

\* The last handler pushed a checkpoint through save_undo_state
SavedUndoState ==
    \/ op = "save_undo_state"
    \/ op = "replace_current" /\ res \in {"true", "panic"}
    \/ op = "replace_all" /\ res # "0"

(***************************************************************************)
(* SpecHist: the session from start-up, driven by the handlers that touch  *)
(* the histories, with one one-letter file to open.  The document is "a"   *)
(* or empty throughout, so that histories of the full 100 entries are      *)
(* within reach.                                                           *)
(***************************************************************************)
\* Passes of a replace_all loop that does not end which are followed
MaxCount == 3

InitHist ==
    /\ AppDefault
    /\ disk = [p \in {"a.txt"} |-> File(<<97>>)]
    /\ Observed

NextHist ==
    \/ show_open_dialog("a.txt") /\ Keep
    \/ handle_new_file /\ Keep
    \/ handle_cut /\ Keep
    \/ Undo /\ Keep
    \/ Redo /\ Keep
    \/ edit_search_fields(<<97>>, <<97>>, TRUE, TRUE) /\ Keep
    \/ replace_current /\ Keep
    \/ replace_all_begin /\ Keep
    \/ replace_all_step /\ count < MaxCount /\ Keep
    \/ replace_all_end /\ Keep

SpecHist == InitHist /\ [][NextHist]_vars

(***************************************************************************)
(* SpecEditor: EditorState's operations on editor states drawn from a      *)
(* bounded set: short histories over two texts, and histories of 99 and    *)
(* 100 distinct snapshots.                                                 *)
(***************************************************************************)
\* The longest of the short histories
MaxHist == 2

Snaps == {<<>>, <<97>>}

\* n distinct one-character snapshots, U+0100 first
Ramp(n) == [i \in 1..n |-> <<255 + i>>]

HistSeqs == SeqsUpTo(Snaps, MaxHist) \cup {Ramp(UndoLimit - 1), Ramp(UndoLimit)}

InitEditor ==
    /\ text \in Snaps
    /\ undo_history \in HistSeqs
    /\ redo_history \in HistSeqs
    /\ Len(undo_history) + Len(redo_history) <= UndoLimit
    /\ file_path = ""
    /\ is_modified = FALSE
    /\ encoding = ""
    /\ find_text = <<>>
    /\ replace_text = <<>>
    /\ case_sensitive = FALSE
    /\ search_down = FALSE
    /\ search_position = 0
    /\ cursor_line = 0
    /\ cursor_column = 0
    /\ recent_files = <<>>
    /\ font_family = CourierNew
    /\ show_open_dialog_flag = FALSE
    /\ show_save_dialog_flag = FALSE
    /\ file_browser = NoBrowser
    /\ windows = {}
    /\ count = 0
    /\ pc = "idle"
    /\ disk = [p \in {"a.txt"} |-> NoFile]
    /\ Observed

\* The histories are short
ShortHist == Len(undo_history) + Len(redo_history) <= MaxHist

\* The history is a long one whose oldest snapshot has not been evicted yet
LongHist == Len(undo_history) >= UndoLimit - 1 /\ undo_history[1] = <<256>>

NextEditor ==
    \/ handle_cut /\ (ShortHist \/ LongHist) /\ Track
    \/ Undo /\ Track
    \/ Redo /\ Track
    \/ \E t \in Snaps : text_edit(t) /\ ShortHist /\ Track

SpecEditor == InitEditor /\ [][NextEditor]_vars

(***************************************************************************)
(* Spec: the session from start-up, driven by every handler above, with    *)
(* one UTF-16 LE file to open and a second path to save to.                *)
(***************************************************************************)
\* The longest text the user types
MaxTextLen == 1

\* The checkpoints and redo entries followed
MaxUndo == 1

Paths == {"a.txt"}

Texts == SeqsUpTo({97}, MaxTextLen)

\* The clock readings insert_time_date sees
Clocks == {0}

\* The find and replace strings the user enters
Needles == {<<97>>}

Replacements == {<<>>}

Init ==
    /\ AppDefault
    /\ disk = [p \in Paths |-> File(<<255, 254, 97, 0>>)]
    /\ Observed

\* There is room for one more checkpoint within the histories followed
HistRoom == Len(undo_history) + Len(redo_history) < MaxUndo

Next ==
    \/ \E t \in Texts : text_edit(t) /\ Keep
    \/ \E secs \in Clocks :
           insert_time_date(secs) /\ Len(text) <= MaxTextLen /\ Keep
    \/ Undo /\ Keep
    \/ Redo /\ Keep
    \/ handle_cut /\ HistRoom /\ Keep
    \/ handle_new_file /\ Keep
    \/ \E write_ok \in BOOLEAN : handle_save(write_ok) /\ Keep
    \/ \E p \in Paths : show_open_dialog(p) /\ Keep
    \/ \E p \in Paths, write_ok \in BOOLEAN :
           show_save_dialog(p, write_ok) /\ Keep
    \/ \E f \in Needles, r \in Replacements, cs \in BOOLEAN :
           edit_search_fields(f, r, cs, TRUE) /\ Keep
    \/ replace_current /\ HistRoom /\ Keep
    \/ replace_all_begin /\ HistRoom /\ Keep
    \/ replace_all_step /\ count < MaxCount /\ Keep
    \/ replace_all_end /\ Keep

Spec == Init /\ [][Next]_vars

(***************************************************************************)
(* SpecCodec: load_file and save_file on files drawn from a bounded set of *)
(* byte sequences: each of the markers, or none, before a short body.      *)
(***************************************************************************)
\* The longest body after the marker
MaxBody == 4

BomPrefixes == {<<>>, <<255, 254>>, <<254, 255>>, <<239, 187, 191>>}

\* NUL, 'a', the two bytes of U+00E9 in UTF-8, the lead bytes of a high and
\* of a low surrogate in UTF-16, and a byte no UTF-8 text holds
BodyBytes == {0, 97, 195, 169, 216, 220, 255}

InitCodec ==
    /\ AppDefault
    /\ \E prefix \in BomPrefixes, body \in SeqsUpTo(BodyBytes, MaxBody) :
           disk = [p \in {"a.txt"} |-> File(prefix \o body)]
    /\ Observed

NextCodec ==
    \/ show_open_dialog("a.txt") /\ Track
    \/ \E write_ok \in BOOLEAN : handle_save(write_ok) /\ Track

SpecCodec == InitCodec /\ [][NextCodec]_vars

(***************************************************************************)
(* SpecRoundTrip: texts typed into a document opened from an empty file of *)
(* each encoding, saved and loaded again.                                  *)
(***************************************************************************)
\* The longest text typed
MaxCodecLen == 2

\* 'a', U+00E9, U+FEFF and U+10000: one, two, three and four bytes of UTF-8,
\* the last a surrogate pair of UTF-16
CodecChars == {97, 233, 65279, 65536}

CodecTexts == SeqsUpTo(CodecChars, MaxCodecLen)

InitRoundTrip ==
    /\ AppDefault
    /\ \E seed \in {<<>>, <<255, 254>>, <<254, 255>>} :
           disk = [p \in {"a.txt"} |-> File(seed)]
    /\ Observed

NextRoundTrip ==
    \/ show_open_dialog("a.txt") /\ Track
    \/ \E t \in CodecTexts : text_edit(t) /\ Track
    \/ handle_save(TRUE) /\ Track

SpecRoundTrip == InitRoundTrip /\ [][NextRoundTrip]_vars

(***************************************************************************)
(* SpecSize: load_file on files at and just over the size limit, under     *)
(* each marker, among short files and a missing one.                       *)
(***************************************************************************)
\* The longest body of the short files
MaxSmall == 3

\* A file of n bytes: the marker, then 'x' repeated
Filled(prefix, n) == prefix \o Repeat(120, n - Len(prefix))

SizeFiles ==
    {File(Filled(prefix, n)) :
         prefix \in BomPrefixes, n \in {MaxFileSize, MaxFileSize + 1}}
    \cup {File(prefix \o body) :
              prefix \in BomPrefixes, body \in SeqsUpTo({97, 216}, MaxSmall)}
    \cup {NoFile}

InitSize ==
    /\ AppDefault
    /\ \E f \in SizeFiles : disk = [p \in {"a.txt"} |-> f]
    /\ Observed

\* One load of each file
NextSize == show_open_dialog("a.txt") /\ op = "init" /\ Keep

SpecSize == InitSize /\ [][NextSize]_vars

(***************************************************************************)
(* SpecSearch: Find Next from start-up, on short texts the user types,     *)
(* with the fields of the Find dialog edited between searches.             *)
(***************************************************************************)
\* The longest text typed
MaxSearchLen == 3

\* 'a', 'A', 'b' and U+00E9, two bytes of UTF-8
SearchChars == {97, 65, 98, 233}

SearchTexts == SeqsUpTo(SearchChars, MaxSearchLen)

SearchNeedles == {<<>>, <<97>>, <<97, 98>>}

InitSearch ==
    /\ AppDefault
    /\ disk = [p \in {"a.txt"} |-> NoFile]
    /\ Observed

NextSearch ==
    \/ \E t \in SearchTexts : text_edit(t) /\ Forget
    \/ \E f \in SearchNeedles, cs \in BOOLEAN, down \in BOOLEAN :
           edit_search_fields(f, <<>>, cs, down) /\ Forget
    \/ find_next /\ Track
    \/ handle_new_file /\ Forget

SpecSearch == InitSearch /\ [][NextSearch]_vars

(***************************************************************************)
(* SpecReplace: one of Find Next, Replace and Replace All on a session     *)
(* drawn from a bounded set: short texts, the texts of the tests of        *)
(* search.rs, empty and full undo histories, a pending redo.               *)
(***************************************************************************)
\* The longest text drawn
MaxReplaceLen == 3

\* 'a', 'A' and U+0130, whose lowercase is two chars
ReplaceChars == {97, 65, 304}

ReplaceTexts == SeqsUpTo(ReplaceChars, MaxReplaceLen)

\* "", "a", "aA"
ReplaceNeedles == {<<>>, <<97>>, <<97, 65>>}

\* "", "b", "aa"
ReplaceWith == {<<>>, <<98>>, <<97, 97>>}

\* "Hello World Hello", "Hello" and "Hi"
HelloWorldHello ==
    <<72, 101, 108, 108, 111, 32, 87, 111, 114, 108, 100, 32,
      72, 101, 108, 108, 111>>

Hello == <<72, 101, 108, 108, 111>>

Hi == <<72, 105>>

\* U+212B 'b' 'a': a text whose lowercase form is one byte shorter
AngstromBA == <<8491, 98, 97>>

InitReplace ==
    /\ \/ /\ text \in ReplaceTexts
          /\ find_text \in ReplaceNeedles
          /\ replace_text \in ReplaceWith
       \/ /\ text = HelloWorldHello
          /\ find_text = Hello
          /\ replace_text = Hi
       \/ /\ text = AngstromBA
          /\ find_text = <<97>>
          /\ replace_text = <<98>>
    /\ undo_history \in {<<>>, Ramp(UndoLimit)}
    /\ redo_history \in {<<>>, <<<<97>>>>}
    /\ Len(undo_history) + Len(redo_history) <= UndoLimit
    /\ file_path = ""
    /\ is_modified \in BOOLEAN
    /\ encoding = ""
    /\ case_sensitive \in BOOLEAN
    /\ search_down \in BOOLEAN
    /\ search_position \in {0, 1}
    /\ cursor_line = 0
    /\ cursor_column = 0
    /\ recent_files = <<>>
    /\ font_family = CourierNew
    /\ show_open_dialog_flag = FALSE
    /\ show_save_dialog_flag = FALSE
    /\ file_browser = NoBrowser
    /\ windows = {}
    /\ count = 0
    /\ pc = "idle"
    /\ disk = [p \in {"a.txt"} |-> NoFile]
    /\ Observed

\* One operation on each session drawn
NextReplace ==
    \/ find_next /\ op = "init" /\ Track
    \/ replace_current /\ op = "init" /\ Track
    \/ replace_all_begin /\ op = "init" /\ Track
    \/ replace_all_step /\ count < MaxCount /\ Keep
    \/ replace_all_end /\ Keep

SpecReplace == InitReplace /\ [][NextReplace]_vars

(***************************************************************************)
(* SpecCursor: position_to_line_column on short texts of letters, newlines *)
(* and a two-byte char, and on "ab\ncd", at offsets up to and beyond the   *)
(* end of the text.                                                        *)
(***************************************************************************)
\* The longest text typed
MaxCursorLen == 3

\* The largest offset asked for
MaxOffset == 6

\* 'a', the newline and U+00E9
CursorChars == {97, 10, 233}

\* "ab\ncd"
AbCd == <<97, 98, 10, 99, 100>>

CursorTexts == SeqsUpTo(CursorChars, MaxCursorLen) \cup {AbCd}

Offsets == 0..MaxOffset

InitCursor ==
    /\ AppDefault
    /\ disk = [p \in {"a.txt"} |-> NoFile]
    /\ Observed

NextCursor ==
    \/ \E t \in CursorTexts : text_edit(t) /\ Keep
    \/ \E offset \in Offsets : show_editor(offset) /\ Keep

SpecCursor == InitCursor /\ [][NextCursor]_vars

(***************************************************************************)
(* SpecLoad: a session that opens one file through the Open dialog and the *)
(* recent-files menu, with edits, checkpoints, undos and cursor movements  *)
(* between the loads.                                                      *)
(***************************************************************************)
\* "", "a" and "a\naa"
LoadTexts == {<<>>, <<97>>, <<97, 10, 97, 97>>}

\* The file "a\na", a file with the FF FE marker and an odd length, which
\* load_file refuses, and no file
LoadFiles == {File(<<97, 10, 97>>), File(<<255, 254, 97>>), NoFile}

InitLoad ==
    /\ AppDefault
    /\ \E f \in LoadFiles : disk = [p \in {"a.txt"} |-> f]
    /\ Observed

\* The histories are empty and the text is short: room for a checkpoint
LoadHistRoom ==
    undo_history = <<>> /\ redo_history = <<>> /\ Len(text) <= 1

NextLoad ==
    \/ \E t \in LoadTexts : text_edit(t) /\ Track
    \/ \E offset \in Offsets : show_editor(offset) /\ Track
    \/ handle_cut /\ LoadHistRoom /\ Track
    \/ Undo /\ Track
    \/ show_open_dialog("a.txt") /\ Track
    \/ \E idx \in 1..RecentShown : show_file_menu(idx) /\ Track

SpecLoad == InitLoad /\ [][NextLoad]_vars

(***************************************************************************)
(* SpecConfig: add_recent_file from the default configuration, on the      *)
(* paths of the tests of config.rs.  The paths are added in their order,   *)
(* and a list that is in that order may have any one path added.           *)
(***************************************************************************)
TestPaths ==
    <<"/path/to/file0.txt", "/path/to/file1.txt", "/path/to/file2.txt",
      "/path/to/file3.txt", "/path/to/file4.txt", "/path/to/file5.txt",
      "/path/to/file6.txt", "/path/to/file7.txt", "/path/to/file8.txt",
      "/path/to/file9.txt", "/path/to/file10.txt", "/path/to/file11.txt">>

\* The place of a test path among the test paths, and the path after it,
\* the first after the last
PathIndex(path) == CHOOSE i \in 1..Len(TestPaths) : TestPaths[i] = path

NextPath(path) == TestPaths[(PathIndex(path) % Len(TestPaths)) + 1]

\* The list is what adding consecutive test paths in their order leaves
InOrder(rf) ==
    \A k \in 1..(Len(rf) - 1) : rf[k] = NextPath(rf[k + 1])

InitConfig ==
    /\ AppDefault
    /\ disk = [p \in {"a.txt"} |-> NoFile]
    /\ Observed

NextConfig ==
    \/ \E i \in 1..Len(TestPaths) :
           /\ config_add_recent_file(TestPaths[i])
           /\ InOrder(recent_files)
           /\ Track
    \/ /\ recent_files # <<>>
       /\ ~InOrder(recent_files)
       /\ config_add_recent_file(NextPath(recent_files[1]))
       /\ Track

SpecConfig == InitConfig /\ [][NextConfig]_vars

(***************************************************************************)
(* SpecEncoding: a session that opens a file of each encoding, or one that *)
(* load_file refuses, types, saves, saves under a name and starts new      *)
(* documents.                                                              *)
(***************************************************************************)
\* "", "a", U+00E9 (one byte of Latin-1) and U+0100 (none)
TagTexts == {<<>>, <<97>>, <<233>>, <<256>>}

\* An empty file, the two UTF-16 markers alone, the UTF-8 marker before 'a',
\* a byte that is not UTF-8, and FF FE before an odd number of bytes
TagFiles ==
    {File(<<>>), File(<<255, 254>>), File(<<254, 255>>),
     File(<<239, 187, 191, 97>>), File(<<233>>), File(<<255, 254, 97>>)}

InitEncoding ==
    /\ AppDefault
    /\ \E f \in TagFiles : disk = [p \in {"a.txt"} |-> f]
    /\ Observed

NextEncoding ==
    \/ show_open_dialog("a.txt") /\ Track
    \/ \E t \in TagTexts : text_edit(t) /\ Track
    \/ \E write_ok \in BOOLEAN : handle_save(write_ok) /\ Track
    \/ \E write_ok \in BOOLEAN : show_save_dialog("a.txt", write_ok) /\ Track
    \/ handle_new_file /\ Track

SpecEncoding == InitEncoding /\ [][NextEncoding]_vars

(***************************************************************************)
(* SpecLatin1: texts of chars up to U+00FF typed into a document opened    *)
(* from a Latin-1 file, saved and loaded again.                            *)
(***************************************************************************)
\* The longest text typed
MaxLatin1Len == 2

\* 'a', U+00E9, U+00C3 and U+00A9 (whose Latin-1 bytes C3 A9 are the UTF-8
\* of U+00E9), U+00FF and U+00FE (whose bytes are the UTF-16 markers)
Latin1Chars == {97, 233, 195, 169, 255, 254}

\* U+00EF U+00BB U+00BF, whose bytes are the UTF-8 marker, before 'a'
MarkerText == <<239, 187, 191, 97>>

Latin1Texts == SeqsUpTo(Latin1Chars, MaxLatin1Len) \cup {MarkerText}

InitLatin1 ==
    /\ AppDefault
    /\ disk = [p \in {"a.txt"} |-> File(<<233>>)]
    /\ Observed

NextLatin1 ==
    \/ show_open_dialog("a.txt") /\ Track
    \/ \E t \in Latin1Texts : text_edit(t) /\ Forget
    \/ handle_save(TRUE) /\ Forget

SpecLatin1 == InitLatin1 /\ [][NextLatin1]_vars

(***************************************************************************)
(* SpecJson: a configuration drawn from short strings of the chars that    *)
(* the file format gives a meaning, written by Config::save and read back  *)
(* by Config::load.                                                        *)
(***************************************************************************)
\* The longest string drawn
MaxJsonLen == 2

\* \ n " , ] a
JsonChars == {92, 110, 34, 44, 93, 97}

JsonStrings == SeqsUpTo(JsonChars, MaxJsonLen)

\* C:\temp\notes.txt
TempNotes ==
    <<67, 58, 92, 116, 101, 109, 112, 92, 110, 111, 116, 101, 115, 46, 116,
      120, 116>>

JsonLists ==
    {<<>>, <<TempNotes>>} \cup {<<s>> : s \in JsonStrings \ {<<>>}}
    \cup {<<s, <<97>>>> : s \in JsonStrings \ {<<>>, <<97>>}}

InitJson ==
    /\ \/ recent_files \in JsonLists /\ font_family = CourierNew
       \/ recent_files = <<>> /\ font_family \in JsonStrings
    /\ text = <<>>
    /\ undo_history = <<>>
    /\ redo_history = <<>>
    /\ file_path = ""
    /\ is_modified = FALSE
    /\ encoding = ""
    /\ find_text = <<>>
    /\ replace_text = <<>>
    /\ case_sensitive = FALSE
    /\ search_down = FALSE
    /\ search_position = 0
    /\ cursor_line = 0
    /\ cursor_column = 0
    /\ show_open_dialog_flag = FALSE
    /\ show_save_dialog_flag = FALSE
    /\ file_browser = NoBrowser
    /\ windows = {}
    /\ count = 0
    /\ pc = "idle"
    /\ disk = [p \in {"config.jsonc"} |-> NoFile]
    /\ Observed

NextJson ==
    \/ \E write_ok \in BOOLEAN : config_save(write_ok) /\ Track
    \/ config_load /\ Track

SpecJson == InitJson /\ [][NextJson]_vars

(***************************************************************************)
(* SpecDialogs: the Open and Save dialogs, frame by frame.  a.txt holds    *)
(* "b", b.txt does not exist; the document is empty or "a".                *)
(***************************************************************************)
DialogPaths == {"a.txt", "b.txt"}

DialogTexts == {<<>>, <<97>>}

\* The clicks of a frame: none, a list entry, the File name field, the
\* Open/Save button or Cancel, in either window
DialogClicks ==
    {NoClick}
    \cup {[kind |-> k, w |-> w, name |-> ""] :
             k \in {"button", "cancel"}, w \in {"open", "save"}}
    \cup {[kind |-> k, w |-> w, name |-> n] :
             k \in {"entry", "type"}, w \in {"open", "save"},
             n \in DialogPaths}

InitDialogs ==
    /\ AppDefault
    /\ disk = [p \in DialogPaths |->
                  IF p = "a.txt" THEN File(<<98>>) ELSE NoFile]
    /\ Observed

NextDialogs ==
    \/ \E t \in DialogTexts : text_edit(t) /\ Track
    \/ press_open /\ Track
    \/ press_save_as /\ Track
    \/ \E write_ok \in BOOLEAN : handle_save(write_ok) /\ Track
    \/ \E click \in DialogClicks, write_ok \in BOOLEAN :
           show_dialogs(click, write_ok) /\ Track

SpecDialogs == InitDialogs /\ [][NextDialogs]_vars

(***************************************************************************)
(* SpecFailure: a session with a file that loads (a.txt) and one that does *)
(* not (b.txt: missing, too large, or UTF-16 that does not decode), and    *)
(* writes that may fail.                                                   *)
(***************************************************************************)
FailTexts == {<<>>, <<97>>}

\* The UTF-16 LE marker alone, and a byte that is not UTF-8
GoodFiles == {File(<<255, 254>>), File(<<233>>)}

\* No file, one byte over the limit, FF FE before an odd number of bytes,
\* FE FF before a lone high surrogate
BadFiles ==
    {NoFile, File(Filled(<<>>, MaxFileSize + 1)), File(<<255, 254, 97>>),
     File(<<254, 255, 216, 0>>)}

FailPaths == {"a.txt", "b.txt"}

InitFailure ==
    /\ AppDefault
    /\ \E g \in GoodFiles, b \in BadFiles :
           disk = [p \in FailPaths |-> IF p = "a.txt" THEN g ELSE b]
    /\ Observed

NextFailure ==
    \/ \E t \in FailTexts : text_edit(t) /\ Track
    \/ handle_cut /\ LoadHistRoom /\ Track
    \/ Undo /\ Track
    \/ \E path \in FailPaths : show_open_dialog(path) /\ Track
    \/ \E idx \in 1..RecentShown : show_file_menu(idx) /\ Track
    \/ \E write_ok \in BOOLEAN : handle_save(write_ok) /\ Track
    \/ \E path \in FailPaths, write_ok \in BOOLEAN :
           show_save_dialog(path, write_ok) /\ Track

SpecFailure == InitFailure /\ [][NextFailure]_vars

(***************************************************************************)
(* The undo and redo histories                                             *)
(***************************************************************************)
\* C1: in every reachable state of the session undo_history holds at most
\* 100 snapshots, whichever of save_undo_state, undo, redo, replace_current,
\* replace_all, New and Load ran last, redo included.
C1_UndoHistoryBounded == Len(undo_history) <= 100

\* C1: a redo has brought undo_history back to 100 snapshots
C1_RedoAtLimit == op = "redo" /\ res = "true" /\ Len(undo_history) = 100

\* C2, as claimed: every operation that pushes onto undo_history, redo as
\* much as save_undo_state, leaves redo_history empty.
C2_EveryPushEmptiesRedo ==
    (SavedUndoState \/ (op = "redo" /\ res = "true")) => redo_history = <<>>

\* C2: every push through save_undo_state (Cut, Paste, Delete,
\* replace_current, replace_all) leaves redo_history empty; a successful redo
\* pushes onto undo_history too, and removes from redo_history only the
\* snapshot it restores.
C2_SaveEmptiesRedo ==
    /\ SavedUndoState => redo_history = <<>>
    /\ (op = "redo" /\ res = "true") =>
           /\ redo_history = Front(pre.redo_history)
           /\ undo_history = Append(pre.undo_history, pre.text)

\* C2: a checkpoint has been pushed over a redo branch, which is gone
C2_PushOverRedoBranch ==
    /\ op = "save_undo_state"
    /\ pre.redo_history # <<>>
    /\ redo_history = <<>>
    /\ undo_history = Append(pre.undo_history, pre.text)

\* C3: undo and redo are exact inverses.  After a successful undo, redo
\* would succeed and give back the editor state from before the undo; after a
\* successful redo, undo would give back the editor state from before the
\* redo; and neither changes undo_history ++ [text] ++ reverse(redo_history).
C3_UndoRedoInverse ==
    /\ (op = "undo" /\ res = "true") =>
           /\ redo(EditorState).ok
           /\ redo(EditorState).es = PreEditor
           /\ text = Last(pre.undo_history)
           /\ Last(redo_history) = pre.text
           /\ Timeline(EditorState) = Timeline(PreEditor)
    /\ (op = "redo" /\ res = "true") =>
           /\ undo(EditorState).ok
           /\ undo(EditorState).es = PreEditor
           /\ text = Last(pre.redo_history)
           /\ Last(undo_history) = pre.text
           /\ Timeline(EditorState) = Timeline(PreEditor)

\* C3: a redo has changed the text with further snapshots left to redo
C3_RedoMidway ==
    /\ op = "redo"
    /\ res = "true"
    /\ text # pre.text
    /\ redo_history # <<>>
    /\ Len(undo_history) = UndoLimit - 1

\* C4: save_undo_state leaves the text as it is and appends it to
\* undo_history; on a history of 100 snapshots it evicts the oldest one, and
\* exactly 100 remain, in their order.
C4_SaveUndoState ==
    op = "save_undo_state" =>
        /\ text = pre.text
        /\ IF Len(pre.undo_history) < 100
           THEN undo_history = Append(pre.undo_history, pre.text)
           ELSE /\ Len(undo_history) = 100
                /\ undo_history = Append(Tail(pre.undo_history), pre.text)

\* C4: a push onto a full history of distinct snapshots
C4_PushOntoFull ==
    /\ op = "save_undo_state"
    /\ Len(pre.undo_history) = 100
    /\ pre.undo_history[1] # pre.undo_history[2]
    /\ undo_history[1] = pre.undo_history[2]
    /\ Last(undo_history) = pre.text

(***************************************************************************)
(* The modified flag                                                       *)
(***************************************************************************)
\* C5: between handlers, whenever the text differs from the text of the last
\* successful load or save (the empty text for a new document) is_modified
\* is true, and is_modified is false right after every successful load and
\* save, whichever of typing, Time/Date, undo, redo, the replace operations,
\* New, Load and Save ran.
C5_ModifiedTracksText ==
    pc = "idle" =>
        /\ text # saved_text => is_modified
        /\ (op \in {"load", "save"} /\ res = "ok") => ~is_modified

(***************************************************************************)
(* Loading and saving                                                      *)
(***************************************************************************)
\* The bytes of the file before the last handler ran, and after it
PreBytes == pre.disk["a.txt"].data

DiskBytes == disk["a.txt"].data

\* The session before the last handler held the file's bytes as load_file
\* decodes them, under the tag load_file detects
HeldAsLoaded ==
    LET d == detect_encoding(PreBytes)
    IN  /\ pre.disk["a.txt"].exists
        /\ ~too_large(PreBytes)
        /\ d.decoded.ok
        /\ pre.text = d.decoded.text
        /\ pre.encoding = d.encoding_used
        /\ pre.file_path = "a.txt"

\* A sequence of UTF-16 code units with a surrogate that is not half of a pair
Unpaired(v) ==
    \E i \in 1..Len(v) :
        \/ IsHighSurrogate(v[i]) /\ (i = Len(v) \/ ~IsLowSurrogate(v[i + 1]))
        \/ IsLowSurrogate(v[i]) /\ (i = 1 \/ ~IsHighSurrogate(v[i - 1]))

\* C6: for every text t and every tag e of UTF-16 LE, UTF-16 BE and UTF-8,
\* loading the file that holds the bytes save_file writes for t under e
\* succeeds with exactly the text t and the tag e, texts that begin with
\* U+FEFF and the empty text included.
C6_RoundTrip ==
    (/\ op = "load"
     /\ pre.encoding \in {"UTF-16 LE", "UTF-16 BE", "UTF-8"}
     /\ pre.disk["a.txt"].exists
     /\ PreBytes = encode_for(pre.encoding, pre.text)) =>
        /\ res = "ok"
        /\ text = pre.text
        /\ encoding = pre.encoding

\* C7, as claimed: for every byte sequence b that load_file accepts, saving
\* the decoded text unmodified under the detected tag writes exactly b, the
\* marker included, whatever the marker.
C7_SaveWritesLoadedBytes ==
    (op = "save" /\ res = "ok" /\ HeldAsLoaded) => DiskBytes = PreBytes

\* C7: for every byte sequence b that load_file accepts and that does not
\* begin with EF BB BF (UTF-16 behind FF FE or FE FF, UTF-8 without a marker,
\* the Latin-1 fallback), saving the decoded text unmodified under the
\* detected tag writes exactly b, the UTF-16 marker included.  A file that
\* begins with EF BB BF is written back without the marker.
C7_SaveWritesLoadedBytesNoUtf8Bom ==
    (/\ op = "save"
     /\ res = "ok"
     /\ HeldAsLoaded
     /\ ~starts_with(PreBytes, <<239, 187, 191>>)) => DiskBytes = PreBytes

\* C7: a UTF-16 BE file of one surrogate pair has been loaded and saved back
C7_SavedSurrogatePair ==
    /\ op = "save"
    /\ res = "ok"
    /\ HeldAsLoaded
    /\ encoding = "UTF-16 BE"
    /\ Len(text) = 1
    /\ text[1] >= 65536
    /\ DiskBytes = PreBytes

\* C8: load_file rejects every file of more than 60,000 bytes as too large,
\* whatever its leading bytes and before any decoding (a marker followed by
\* bytes that would not decode changes nothing), and rejects no file of
\* 60,000 bytes or fewer for its size.
C8_SizeLimit ==
    (op = "load" /\ disk["a.txt"].exists) =>
        (res = "too_large" <=> Len(DiskBytes) > 60000)

\* C8: a file of 60,001 bytes behind FF FE, an odd number of bytes after the
\* marker, has been rejected as too large
C8_RejectedBeforeDecoding ==
    /\ op = "load"
    /\ res = "too_large"
    /\ Len(DiskBytes) = 60001
    /\ starts_with(DiskBytes, <<255, 254>>)
    /\ text = <<>>

\* C9: a successful load follows the cascade, whatever the session held
\* before: FF FE gives UTF-16 LE and FE FF gives UTF-16 BE, the text being
\* the one whose UTF-16 code units follow the marker; else EF BB BF gives
\* UTF-8, the text decoded from the bytes after the 3-byte marker; else the
\* tag is UTF-8 when all the bytes are strictly valid UTF-8, the text being
\* the one they encode, and Latin1 otherwise, one character per byte.
C9_Cascade ==
    (op = "load" /\ res = "ok") =>
        IF starts_with(PreBytes, <<255, 254>>)
        THEN /\ encoding = "UTF-16 LE"
             /\ encode_utf16_le(text) = SliceFrom(PreBytes, 2)
        ELSE IF starts_with(PreBytes, <<254, 255>>)
        THEN /\ encoding = "UTF-16 BE"
             /\ encode_utf16_be(text) = SliceFrom(PreBytes, 2)
        ELSE IF starts_with(PreBytes, <<239, 187, 191>>)
        THEN /\ encoding = "UTF-8"
             /\ text = from_utf8_lossy(SliceFrom(PreBytes, 3))
             /\ from_utf8_ok(SliceFrom(PreBytes, 3)) =>
                    as_bytes(text) = SliceFrom(PreBytes, 3)
        ELSE IF from_utf8_ok(PreBytes)
        THEN encoding = "UTF-8" /\ as_bytes(text) = PreBytes
        ELSE encoding = "Latin1" /\ text = PreBytes

\* C9: EF BB BF before the two bytes of U+00E9 has been loaded as that one
\* character, tagged UTF-8
C9_Utf8BomStripped ==
    /\ op = "load"
    /\ res = "ok"
    /\ PreBytes = <<239, 187, 191, 195, 169>>
    /\ text = <<233>>
    /\ encoding = "UTF-8"

\* C10: within the size cap, load_file fails to decode exactly when the
\* bytes start with FF FE or FE FF and what follows has odd length or holds
\* an unpaired surrogate; every other input decodes.
C10_DecodeFailsIff ==
    (op = "load" /\ pre.disk["a.txt"].exists /\ Len(PreBytes) <= 60000) =>
        LET rest == SliceFrom(PreBytes, 2)
            bad ==
                \/ /\ starts_with(PreBytes, <<255, 254>>)
                   /\ (Len(rest) % 2 = 1 \/ Unpaired(u16_chars_le(rest)))
                \/ /\ starts_with(PreBytes, <<254, 255>>)
                   /\ (Len(rest) % 2 = 1 \/ Unpaired(u16_chars_be(rest)))
        IN  /\ (res = "invalid_encoding") <=> bad
            /\ (res = "ok") <=> ~bad

\* C10: a lone high surrogate behind FE FF has been refused
C10_LoneSurrogateRefused ==
    /\ op = "load"
    /\ res = "invalid_encoding"
    /\ PreBytes = <<254, 255, 216, 0>>
    /\ text = pre.text

(***************************************************************************)
(* Find Next                                                               *)
(***************************************************************************)
\* The bytes find_next compared: the haystack it was called on, and the
\* needle
PreHay == as_bytes(IF case_sensitive THEN pre.text ELSE to_lowercase(pre.text))

NeedleBytes == as_bytes(search_needle)

\* The matches that start at or after the offset p, those that lie within
\* [0, p), and the least and greatest of a set of offsets
MatchesFrom(p) == {i \in occurrences(PreHay, NeedleBytes) : i >= p}

MatchesBefore(p) ==
    {i \in occurrences(PreHay, NeedleBytes) : i + Len(NeedleBytes) <= p}

Least(S) == CHOOSE i \in S : \A j \in S : i <= j

Greatest(S) == CHOOSE i \in S : \A j \in S : i >= j

\* C11: after a forward find_next with non-empty find_text: if a match starts
\* at or after the search_position it was called with, search_position is
\* just past the end of the first such match and the result is true;
\* otherwise, if a match lies within [0, search_position), search_position is
\* just past the end of the first such match and the result is true;
\* otherwise the result is false and search_position is unchanged.  The text
\* is never changed.
C11_FindNextForward ==
    (op = "find_next" /\ find_text # <<>> /\ search_down) =>
        /\ text = pre.text
        /\ IF MatchesFrom(pre.search_position) # {}
           THEN /\ res = "true"
                /\ search_position =
                       Least(MatchesFrom(pre.search_position))
                       + Len(NeedleBytes)
           ELSE IF MatchesBefore(pre.search_position) # {}
           THEN /\ res = "true"
                /\ search_position =
                       Least(MatchesBefore(pre.search_position))
                       + Len(NeedleBytes)
           ELSE /\ res = "false"
                /\ search_position = pre.search_position

\* C12: after a backward find_next with non-empty find_text: when a match
\* lies in the part of the document before the search_position it was called
\* with, search_position is the start of the last such match and the result
\* is true; only when none lies there is the part from search_position to
\* the end searched.
C12_FindNextBackward ==
    (op = "find_next" /\ find_text # <<>> /\ ~search_down) =>
        IF MatchesBefore(pre.search_position) # {}
        THEN /\ res = "true"
             /\ search_position = Greatest(MatchesBefore(pre.search_position))
        ELSE IF MatchesFrom(pre.search_position) # {}
        THEN /\ res = "true"
             /\ search_position = Greatest(MatchesFrom(pre.search_position))
        ELSE /\ res = "false"
             /\ search_position = pre.search_position

(***************************************************************************)
(* Replace and Replace All                                                 *)
(***************************************************************************)
\* The undo history after one checkpoint of the text t on the history h:
\* t is the newest entry, and the entries before it are those of h, less the
\* oldest if h was full
OneCheckpoint(h, t) ==
    /\ undo_history # <<>>
    /\ Last(undo_history) = t
    /\ Front(undo_history) \in {h, SubSeq(h, 2, Len(h))}
    /\ Len(undo_history) <= Len(h) + 1

\* C13: after a replace_all with non-empty find_text that has returned with
\* count >= 1, the histories hold exactly one checkpoint more than before
\* it (undo_history has grown by at most one entry), and a single undo
\* restores exactly the text from before the replace_all.
C13_ReplaceAllOneCheckpoint ==
    (op = "replace_all" /\ res = "returned" /\ count >= 1) =>
        /\ OneCheckpoint(pre.undo_history, pre.text)
        /\ undo(EditorState).ok
        /\ undo(EditorState).es.text = pre.text

\* C13: a replace_all has made two or more replacements on a full history
C13_BatchOnFullHistory ==
    /\ op = "replace_all" /\ res = "returned" /\ count >= 2
    /\ Len(pre.undo_history) = UndoLimit
    /\ Len(undo_history) = UndoLimit
    /\ text # pre.text

\* The text t with the first occurrence of f replaced by r
FirstReplaced(t, f, r) ==
    LET b == as_bytes(t)
        i == Least(occurrences(b, as_bytes(f)))
    IN  from_utf8_lossy(SubSeq(b, 1, i) \o as_bytes(r)
                        \o SubSeq(b, i + Len(as_bytes(f)) + 1, Len(b)))

\* t after n replacements of the first occurrence of f by r
RECURSIVE ReplacedTimes(_, _, _, _)
ReplacedTimes(t, f, r, n) ==
    IF n = 0 THEN t ELSE FirstReplaced(ReplacedTimes(t, f, r, n - 1), f, r)

Occurs(t, f) == occurrences(as_bytes(t), as_bytes(f)) # {}

\* C14: after a case-sensitive replace_all has returned, the text holds no
\* occurrence of find_text, it is the text from before with the first
\* occurrence replaced count times, each time while one was there, and
\* is_modified has been set exactly if count > 0 ("Hello World Hello" with
\* Hello -> Hi: count 2 and "Hi World Hi").
C14_ReplaceAllCaseSensitive ==
    (op = "replace_all" /\ res = "returned" /\ case_sensitive) =>
        /\ ~Occurs(text, find_text)
        /\ \A k \in 0..(count - 1) :
               Occurs(ReplacedTimes(pre.text, find_text, replace_text, k),
                      find_text)
        /\ text = ReplacedTimes(pre.text, find_text, replace_text, count)
        /\ is_modified = (count > 0 \/ pre.is_modified)

\* C14: the test of search.rs: count 2 and "Hi World Hi"
C14_HelloWorldHello ==
    /\ op = "replace_all" /\ res = "returned" /\ case_sensitive
    /\ pre.text = HelloWorldHello /\ find_text = Hello /\ replace_text = Hi
    /\ count = 2
    /\ text = <<72, 105, 32, 87, 111, 114, 108, 100, 32, 72, 105>>
    /\ ~pre.is_modified /\ is_modified

\* A text as the comparison sees it
Fold(t) == IF case_sensitive THEN t ELSE to_lowercase(t)

\* The matches of find_text in the text t under the case rule, as ranges of
\* chars <<first, last>>, and the first of them
FoldMatches(t) ==
    {m \in (1..Len(t)) \X (1..Len(t)) :
         m[1] <= m[2] /\ Fold(SubSeq(t, m[1], m[2])) = Fold(find_text)}

FirstMatch(t) ==
    CHOOSE m \in FoldMatches(t) :
        \A o \in FoldMatches(t) :
            m[1] < o[1] \/ (m[1] = o[1] /\ m[2] <= o[2])

\* C19: after a replace_current with non-empty find_text on a text with at
\* least one match under the case rule, whatever search_position was: the
\* result is true, the text from before is the one new checkpoint, the text
\* is the text from before with replace_text in place of exactly the first
\* match, is_modified is set, and search_position is the start of the match
\* plus the length of replace_text.
C19_ReplaceCurrent ==
    (op = "replace_current" /\ find_text # <<>>
        /\ FoldMatches(pre.text) # {}) =>
        LET m == FirstMatch(pre.text)
            before == SubSeq(pre.text, 1, m[1] - 1)
            after == SubSeq(pre.text, m[2] + 1, Len(pre.text))
        IN  /\ res = "true"
            /\ OneCheckpoint(pre.undo_history, pre.text)
            /\ text = before \o replace_text \o after
            /\ is_modified
            /\ search_position = str_len(before) + str_len(replace_text)

\* C20: with an empty find_text, find_next returns false, replace_current
\* returns false and replace_all returns 0, and each leaves the text,
\* undo_history, redo_history, is_modified and search_position as they
\* were.
C20_EmptyFindText ==
    (op \in {"find_next", "replace_current", "replace_all"}
        /\ find_text = <<>>) =>
        /\ res = (IF op = "replace_all" THEN "0" ELSE "false")
        /\ text = pre.text
        /\ undo_history = pre.undo_history
        /\ redo_history = pre.redo_history
        /\ is_modified = pre.is_modified
        /\ search_position = pre.search_position

\* C20: replace_all has returned 0 for an empty find_text on a text with a
\* pending redo
C20_ReplaceAllNothingToFind ==
    /\ op = "replace_all" /\ res = "0" /\ find_text = <<>>
    /\ text # <<>> /\ redo_history # <<>>
    /\ search_position = 1

(***************************************************************************)
(* The cursor position                                                     *)
(***************************************************************************)
\* The line and column of the byte offset c <= len of the text t: 1 plus the
\* newlines before c, and 1 plus the distance of c from the last newline
\* before it, or from the start
LineColumnAt(t, c) ==
    LET b == as_bytes(t)
        newlines == {i \in 1..c : b[i] = 10}
    IN  <<1 + Cardinality(newlines),
          1 + c - (IF newlines = {} THEN 0 ELSE Greatest(newlines))>>

Clamped(t, offset) == IF offset <= str_len(t) THEN offset ELSE str_len(t)

\* C15: for every offset, position_to_line_column(offset) does not fail and
\* gives the line and column of the clamped offset min(offset, text length);
\* an offset beyond the end gives those of the end of the text.
C15_PositionClamped ==
    [][\A offset \in Offsets :
           show_editor(offset) =>
               /\ pc' = "idle"
               /\ <<cursor_line', cursor_column'>> =
                      LineColumnAt(text, Clamped(text, offset))]_vars

\* C17: after every successful load through the Open dialog or a recent-files
\* entry, the text is the text of the file, undo_history and redo_history
\* are empty, and the cursor position shown is line 1, column 1.
C17_LoadResets ==
    (op \in {"load", "load_recent"} /\ res = "ok") =>
        /\ text = from_utf8_lossy(DiskBytes)
        /\ undo_history = <<>>
        /\ redo_history = <<>>
        /\ cursor_line = 1
        /\ cursor_column = 1

(***************************************************************************)
(* The recent files                                                        *)
(***************************************************************************)
\* The list rf without the path
Without(rf, path) == SelectSeq(rf, LAMBDA f : f # path)

\* C16: after any sequence of add_recent_file calls from the default
\* configuration, recent_files holds at most 10 paths, none of them twice,
\* most recent first: the path of the latest call is at index 0, and after
\* it come the paths the list held before, in their order and without that
\* path, as far as 10 entries go.
C16_RecentFiles ==
    /\ Len(recent_files) <= 10
    /\ \A i, j \in 1..Len(recent_files) :
           i # j => recent_files[i] # recent_files[j]
    /\ op = "add_recent_file" =>
           /\ recent_files[1] = res
           /\ \A k \in 2..Len(recent_files) :
                  recent_files[k] = Without(pre.recent_files, res)[k - 1]
           /\ Len(recent_files) =
                  IF Len(Without(pre.recent_files, res)) >= 10 THEN 10
                  ELSE Len(Without(pre.recent_files, res)) + 1

\* C16: the oldest of ten recent files has been added again
C16_OldestReAdded ==
    /\ op = "add_recent_file"
    /\ Len(pre.recent_files) = 10
    /\ pre.recent_files[10] = res
    /\ Len(recent_files) = 10
    /\ recent_files[1] = res

(***************************************************************************)
(* The encoding tag                                                        *)
(***************************************************************************)
\* The bytes of the text t under the encoding tag enc
BytesUnder(enc, t) ==
    IF enc = "UTF-16 LE"
    THEN <<255, 254>>
         \o Flatten([i \in 1..Len(encode_utf16(t)) |->
                         <<encode_utf16(t)[i] % 256,
                           encode_utf16(t)[i] \div 256>>])
    ELSE IF enc = "UTF-16 BE"
    THEN <<254, 255>>
         \o Flatten([i \in 1..Len(encode_utf16(t)) |->
                         <<encode_utf16(t)[i] \div 256,
                           encode_utf16(t)[i] % 256>>])
    ELSE IF enc = "Latin1"
    THEN [i \in 1..Len(t) |-> IF t[i] <= 255 THEN t[i] ELSE 63]
    ELSE as_bytes(t)

\* C18: a save writes the text under the encoding tag recorded before it,
\* whatever the text is, and leaves the tag as it was; no handler but a
\* successful load changes the tag, and a successful load records the tag
\* detected from the file: every save between two loads is in the encoding
\* the earlier load detected.
C18_SaveUsesRecordedTag ==
    /\ (op = "save" /\ res = "ok") =>
           DiskBytes = BytesUnder(pre.encoding, text)
    /\ (op = "load" /\ res = "ok") =>
           encoding = detect_encoding(DiskBytes).encoding_used
    /\ ~(op = "load" /\ res = "ok") => encoding = pre.encoding

\* C18: a document started with New after a UTF-16 BE file was loaded has
\* been saved under a name, in UTF-16 BE, with a text that Latin-1 holds
C18_SavedAfterNew ==
    /\ op = "save" /\ res = "ok"
    /\ pre.file_path = ""
    /\ pre.encoding = "UTF-16 BE"
    /\ text = <<233>>
    /\ DiskBytes = <<254, 255, 0, 233>>

(***************************************************************************)
(* The loop of Replace All                                                 *)
(***************************************************************************)
\* C21: a case-sensitive replace_all with a non-empty find_text that occurs
\* in replace_text, on a text that holds find_text, never returns: after
\* every replacement it is still in its loop and the loop condition (the
\* text holds find_text) is still true.
C21_ReplaceAllLoopsOn ==
    (op = "replace_all" /\ case_sensitive /\ find_text # <<>>
        /\ Occurs(replace_text, find_text) /\ Occurs(pre.text, find_text)) =>
        /\ pc = "replace_all"
        /\ res = "running"
        /\ Occurs(text, find_text)

\* C21: "a" -> "aa", three or more replacements made and the loop still on
C21_StillLooping ==
    /\ op = "replace_all" /\ pc = "replace_all" /\ case_sensitive
    /\ find_text = <<97>> /\ replace_text = <<97, 97>>
    /\ count >= 3
    /\ Len(text) = Len(pre.text) + count
    /\ Occurs(text, find_text)

\* C22: replace_all terminates for every text and every non-empty find_text
\* when replace_text does not hold find_text under the comparison rule in
\* force.  The loop goes by the text alone, so it ends only if no pass
\* brings back a text it was on before with the condition still true: after
\* one or more passes the text is not the text replace_all started on with
\* an occurrence still in it.
C22_ReplaceAllTerminates ==
    (op = "replace_all" /\ pc = "replace_all" /\ count >= 1
        /\ ~Occurs(Fold(replace_text), Fold(find_text))) =>
        ~(text = pre.text /\ Occurs(Fold(text), Fold(find_text)))

(***************************************************************************)
(* search_position and the text                                            *)
(***************************************************************************)
\* C23: in every reachable state search_position is at most the length of
\* the text in bytes, so that the slices of find_next are in range, also
\* after the text has become shorter following a successful find.
C23_SearchPositionInRange == search_position <= str_len(text)

\* C24: a forward find_next with a non-empty find_text, called with a
\* search_position that is a char boundary within the text, returns true
\* whenever find_text occurs anywhere in the text under the case rule, also
\* when the only occurrence starts before search_position and ends after
\* it.
C24_FindNextComplete ==
    (op = "find_next" /\ search_down /\ find_text # <<>>
        /\ pre.search_position <= str_len(pre.text)
        /\ is_char_boundary(pre.text, pre.search_position)
        /\ occurrences(PreHay, NeedleBytes) # {}) =>
        res = "true"

(***************************************************************************)
(* Replace and Replace All with nothing to replace                         *)
(***************************************************************************)
\* C25: when find_text is not empty and has no match in the text under the
\* case rule, replace_current returns false and replace_all returns 0, and
\* each leaves the text, undo_history, redo_history and is_modified as they
\* were: a pending redo is still there.
C25_NoMatchNoChange ==
    ((op = "replace_current" \/ (op = "replace_all" /\ res = "returned"))
        /\ find_text # <<>>
        /\ ~Occurs(Fold(pre.text), Fold(find_text))) =>
        /\ op = "replace_current" => res = "false"
        /\ op = "replace_all" => count = 0
        /\ text = pre.text
        /\ undo_history = pre.undo_history
        /\ redo_history = pre.redo_history
        /\ is_modified = pre.is_modified

(***************************************************************************)
(* Loads and saves that fail                                               *)
(***************************************************************************)
\* C26: a load that fails (the file cannot be read, is too large, or is
\* UTF-16 that does not decode) leaves the path, the encoding, is_modified,
\* the text, undo_history and redo_history as they were; a save whose write
\* fails leaves the path, the encoding and is_modified as they were.
C26_FailureChangesNothing ==
    /\ (op \in {"load", "load_recent"} /\ res # "ok") =>
           /\ res \in {"read_error", "too_large", "invalid_encoding"}
           /\ file_path = pre.file_path
           /\ encoding = pre.encoding
           /\ is_modified = pre.is_modified
           /\ text = pre.text
           /\ undo_history = pre.undo_history
           /\ redo_history = pre.redo_history
    /\ (op = "save" /\ res = "write_error") =>
           /\ file_path = pre.file_path
           /\ encoding = pre.encoding
           /\ is_modified = pre.is_modified

\* C26: a load has failed on a modified document of a UTF-16 LE file with
\* an undo step pending
C26_FailedLoadOfModified ==
    /\ op = "load" /\ res \in {"too_large", "invalid_encoding"}
    /\ file_path = "a.txt" /\ encoding = "UTF-16 LE" /\ is_modified
    /\ undo_history # <<>>

(***************************************************************************)
(* The Latin-1 round trip                                                  *)
(***************************************************************************)
\* C27: for every text whose chars are all at most U+00FF, the bytes
\* save_file writes under the tag Latin1, loaded again, give exactly that
\* text and the tag Latin1, whatever the bytes look like.
C27_Latin1RoundTrip ==
    (/\ op = "load"
     /\ pre.encoding = "Latin1"
     /\ \A i \in 1..Len(pre.text) : pre.text[i] <= 255
     /\ PreBytes = encode_latin1(pre.text)) =>
        /\ res = "ok"
        /\ text = pre.text
        /\ encoding = "Latin1"

(***************************************************************************)
(* New                                                                     *)
(***************************************************************************)
\* C28: after New the text, undo_history and redo_history are empty, the
\* path is empty, is_modified is false and the encoding is that of a new
\* document; the first save of a document that has no path yet writes the
\* text as plain UTF-8, whatever file was loaded before.
C28_NewIsFresh ==
    /\ op = "new" =>
           /\ text = <<>>
           /\ undo_history = <<>>
           /\ redo_history = <<>>
           /\ file_path = ""
           /\ ~is_modified
           /\ encoding \in {"", "UTF-8"}
    /\ (op = "save" /\ res = "ok" /\ pre.file_path = "") =>
           DiskBytes = as_bytes(text)

(***************************************************************************)
(* The configuration file                                                  *)
(***************************************************************************)
\* C29: for every configuration, Config::load of the file Config::save has
\* written for it gives the same recent_files and the same font_family,
\* whatever chars the strings hold.
C29_ConfigRoundTrip ==
    (/\ op = "config_load"
     /\ pre.disk["config.jsonc"].exists
     /\ pre.disk["config.jsonc"].data =
            as_bytes(to_json(pre.recent_files, pre.font_family))) =>
        /\ res = "parsed"
        /\ recent_files = pre.recent_files
        /\ font_family = pre.font_family

\* C30: while the Open and the Save dialog are both pending on the one
\* file_browser slot, every save_file that show_save_dialog makes is with a
\* path confirmed in a browser created in save mode: no file selected in a
\* browser created for Open is overwritten with the document.
C30_SaveFromSaveBrowserOnly ==
    [][(/\ show_open_dialog_flag
        /\ show_save_dialog_flag
        /\ ~show_save_dialog_flag'
        /\ op' = "save")
       => file_browser.is_save_mode]_vars

=============================================================================
